---- MODULE Spec2Model ----
(***************************************************************************)
(* WriteBackReminder: the conversation store (datastore.py) and the        *)
(* follow-up refresh scheduler (app.py).                                   *)
(*                                                                         *)
(* The store object and the directories it owns are one record, `store`;   *)
(* every method of ConversationStore is an operator from a store record to *)
(* a result record [s, ret, raised]: the store after the call, the value   *)
(* returned and whether an exception left the method.                      *)
(***************************************************************************)
EXTENDS Integers, Sequences, FiniteSets, TLC

\* ------------------------------------------------------------------ bounds
MaxIds == 2         \* uuid4 values drawn in one behaviour
MaxEntries == 2     \* entries per contact that add_entry is tried with

\* ------------------------------------------------------------------ inputs
Users == {"u1", "u2"}
Contacts == {"alice", "bob"}
\* the contacts the users write about
Pairs == {<<"u1", "alice">>, <<"u1", "bob">>, <<"u2", "alice">>}
ValidKinds == {"conversation", "note"}
Kinds == ValidKinds \cup {"memo"}
AddSummaries == {" yo "}
UpdateSummaries == {"hi"}
UpdateKinds == {"", "note"}
NoKind == ""        \* entry_type=None (update_entry's default), or a missing JSON field

\* sorted(): the alphabetical order of the identifiers used here
Rank(x) ==
  CASE x = "alice" -> 1 [] x = "bob" -> 2 [] x = "u1" -> 3 [] x = "u2" -> 4

\* str.strip()
Strip(s) == CASE s = " yo " -> "yo" [] OTHER -> s

\* ---------------------------------------------------------- python dicts
\* A dict is the sequence of its items in insertion order.
DHas(d, k) == \E i \in 1..Len(d) : d[i].k = k
DGet(d, k) == d[CHOOSE i \in 1..Len(d) : d[i].k = k].v
DPut(d, k, v) ==
  IF DHas(d, k)
  THEN [i \in 1..Len(d) |-> IF d[i].k = k THEN [k |-> k, v |-> v] ELSE d[i]]
  ELSE Append(d, [k |-> k, v |-> v])
DPop(d, k) == SelectSeq(d, LAMBDA e : e.k # k)
DKeys(d) == {d[i].k : i \in 1..Len(d)}

RECURSIVE SortedSeq(_)
SortedSeq(S) ==
  IF S = {} THEN << >>
  ELSE <<CHOOSE x \in S : \A y \in S : Rank(x) <= Rank(y)>>
       \o SortedSeq(S \ {CHOOSE x \in S : \A y \in S : Rank(x) <= Rank(y)})

\* ------------------------------------------------------------ file names
\* base64.urlsafe_b64encode(user).rstrip("=")
Token(u) == CASE u = "u1" -> "dTE" [] u = "u2" -> "dTI" [] OTHER -> "Pw"

\* ------------------------------------------------------------ timestamps
\* datetime.isoformat() of an aware UTC datetime, and datetime.fromisoformat()
\* followed by the replace(tzinfo=utc) of a naive value.
IsoFormat(t) == [t |-> t, tz |-> "+00:00"]
IsoParses(raw) == raw.tz \in {"+00:00", "naive"}
FromIso(raw) == raw.t

\* -------------------------------------------------------------- the store
\* With(v, F) is F(v): a local name for a value that is used more than once.
\* v is evaluated once, also where the formula is evaluated inside ENABLED.
With(v, F(_)) == CHOOSE r \in {F(x) : x \in {v}} : TRUE

\* Do(v, A) is A(v) for an action A
Do(v, A(_)) == \E x \in {v} : A(x)

NoUserData == [conversations |-> << >>, recommendations |-> << >>]

HasUser(S, u) == u \in DOMAIN S.data

ensure_user(S, u) ==
  IF HasUser(S, u) THEN S
  ELSE [S EXCEPT !.data = [x \in DOMAIN S.data \cup {u} |->
                             IF x = u THEN NoUserData ELSE S.data[x]]]

path_for_user(S, u) ==
  IF u \in DOMAIN S.user_files THEN S
  ELSE [S EXCEPT !.user_files = [x \in DOMAIN S.user_files \cup {u} |->
                                   IF x = u THEN Token(u) ELSE S.user_files[x]]]

path_for_recommendations(S, u) ==
  IF u \in DOMAIN S.recommendation_files THEN S
  ELSE [S EXCEPT !.recommendation_files =
          [x \in DOMAIN S.recommendation_files \cup {u} |->
             IF x = u THEN Token(u) ELSE S.recommendation_files[x]]]

WriteFile(dir, path, content) ==
  [p \in DOMAIN dir \cup {path} |-> IF p = path THEN content ELSE dir[p]]
Unlink(dir, path) == [p \in DOMAIN dir \ {path} |-> dir[p]]

\* a file whose text is cut short: json.loads rejects it
Partial == [user |-> "", conversations |-> << >>, recommendations |-> << >>]

\* path.with_suffix(path.suffix + ".tmp"): the temporary sibling, which the
\* glob("*.json") of the loads does not match
TmpOf(path) == path \o ".tmp"
IsTmp(path) == \E u \in Users : path = TmpOf(Token(u))
JsonFiles(dir) == {p \in DOMAIN dir : ~IsTmp(p)}

\* faulty variant: the text is written into the target itself
WriteInPlace(dir, path, content, fault) ==
  IF fault = "write" THEN <<WriteFile(dir, path, Partial)>>
  ELSE <<WriteFile(dir, path, Partial), WriteFile(dir, path, content)>>

\* Lines 299-305 and 379-385: the states the directory passes through while
\* a file is persisted. write_text fills the temporary sibling, replace()
\* renames it over the target in one step, the finally block removes a
\* sibling that is still there. `fault` is "write" when write_text raises
\* after a part of the text, "replace" when the rename raises, "none"
\* otherwise. A process that is killed leaves the directory in one of these
\* states.
AtomicWrite(dir, path, content, fault) ==
  IF fault = "write"
  THEN <<WriteFile(dir, TmpOf(path), Partial), Unlink(dir, TmpOf(path))>>
  ELSE IF fault = "replace"
  THEN <<WriteFile(dir, TmpOf(path), Partial),
         WriteFile(dir, TmpOf(path), content),
         Unlink(dir, TmpOf(path))>>
  ELSE <<WriteFile(dir, TmpOf(path), Partial),
         WriteFile(dir, TmpOf(path), content),
         WriteFile(Unlink(dir, TmpOf(path)), path, content)>>

\* the directory when the persist has returned or raised
Settled(stages) == stages[Len(stages)]

\* The store's `trace` lists, while the mirror is enabled, the file writes and
\* the mirror requests of the call in progress, in the order they are made.
Event(op, file, key) == [op |-> op, file |-> file, key |-> key]
Log(S, ev) == IF S.use_s3 THEN [S EXCEPT !.trace = Append(@, ev)] ELSE S

\* s3_cache.upload_file: nothing without the source file; an error of the
\* PUT is logged and swallowed. The object key is the user's token.
upload_file(S, u, io) ==
  IF S.user_files[u] \notin DOMAIN S.conv_dir THEN S
  ELSE With(Log(S, Event("put", "conv", Token(u))), LAMBDA S1 :
         IF "s3put" \in io THEN S1
         ELSE [S1 EXCEPT !.bucket =
                 WriteFile(@, Token(u), S1.conv_dir[S1.user_files[u]])])

\* faulty variant: a failed upload takes the local file back and raises
s3_upload_user_strict(S, u, io) ==
  IF ~S.ready THEN [s |-> S, raised |-> TRUE]
  ELSE IF ~S.use_s3 THEN [s |-> S, raised |-> FALSE]
  ELSE IF "s3put" \in io
  THEN [s |-> [S EXCEPT !.conv_dir = Unlink(@, S.user_files[u])],
        raised |-> TRUE]
  ELSE [s |-> upload_file(path_for_user(S, u), u, io), raised |-> FALSE]

\* _s3_upload_user. Line 449 reads self._use_s3, which __init__ assigns after
\* the two loads (line 69): a call made by the loads raises AttributeError
\* (S.ready is FALSE until __init__ has run to its end).
s3_upload_user(S, u, io) ==
  IF ~S.ready THEN [s |-> S, raised |-> TRUE]
  ELSE IF ~S.use_s3 THEN [s |-> S, raised |-> FALSE]
  ELSE [s |-> upload_file(path_for_user(S, u), u, io), raised |-> FALSE]

EntryJson(e) ==
  [id |-> e.id, entry_type |-> e.entry_type, summary |-> e.summary,
   timestamp |-> IsoFormat(e.timestamp)]

ConversationsJson(convs) ==
  [i \in 1..Len(convs) |->
     [k |-> convs[i].k,
      v |-> [j \in 1..Len(convs[i].v) |-> EntryJson(convs[i].v[j])]]]

\* the document _persist_user serialises
UserDoc(S, u) ==
  [user |-> u,
   conversations |-> ConversationsJson(
     IF HasUser(S, u) THEN S.data[u].conversations ELSE << >>),
   recommendations |-> << >>]

\* _persist_user: write the conversation file (temporary sibling, then
\* rename), then mirror it; `io` names the writes the operating system refuses.
persist_user(S, u, io) ==
  With(path_for_user(S, u), LAMBDA S1 :
    IF "conv" \in io
    THEN [s |-> [S1 EXCEPT !.conv_dir =
                   Settled(AtomicWrite(@, S1.user_files[u], UserDoc(S1, u),
                                       "write"))],
          raised |-> TRUE]
    ELSE s3_upload_user(
           Log([S1 EXCEPT !.conv_dir =
                  Settled(AtomicWrite(@, S1.user_files[u], UserDoc(S1, u),
                                      "none"))],
               Event("write", "conv", Token(u))),
           u, io))

RecJson(r) ==
  [proposed_response |-> r.proposed_response, urgency |-> r.urgency,
   rationale |-> r.rationale, generated_at |-> IsoFormat(r.generated_at)]

RecommendationsJson(recs) ==
  [i \in 1..Len(recs) |-> [k |-> recs[i].k, v |-> RecJson(recs[i].v)]]

\* the document _persist_recommendations serialises
RecDoc(S, u) ==
  [user |-> u,
   recommendations |-> RecommendationsJson(S.data[u].recommendations)]

\* the branch of _persist_recommendations for an empty mapping
RemoveRecommendationFile(S, u) ==
  [S EXCEPT !.rec_dir = IF u \in DOMAIN S.recommendation_files
                        THEN Unlink(@, S.recommendation_files[u]) ELSE @,
            !.recommendation_files = [x \in DOMAIN @ \ {u} |-> @[x]]]

\* _persist_recommendations
persist_recommendations(S, u, io) ==
  IF ~HasUser(S, u) \/ S.data[u].recommendations = << >>
  THEN [s |-> RemoveRecommendationFile(S, u), raised |-> FALSE]
  ELSE With(path_for_recommendations(S, u), LAMBDA S1 :
         IF "rec" \in io
         THEN [s |-> [S1 EXCEPT !.rec_dir =
                        Settled(AtomicWrite(@, S1.recommendation_files[u],
                                            RecDoc(S1, u), "write"))],
               raised |-> TRUE]
         ELSE [s |-> Log([S1 EXCEPT !.rec_dir =
                            Settled(AtomicWrite(@, S1.recommendation_files[u],
                                                RecDoc(S1, u), "none"))],
                         Event("write", "rec", Token(u))),
               raised |-> FALSE])

\* ---------------------------------------------------------------- loading
\* What a JSON document can hold where the code expects a value:
\*   id 0            a missing, null or empty id
\*   entry_type ""   a missing or empty kind
\*   NonStr          a missing or non-text summary
\*   tz "bad"        a text that fromisoformat() rejects; tz "nonstr" a
\*                   missing or non-text timestamp
\*   urgency NonInt  a missing or non-integer urgency
NonStr == "<non-str>"
NonInt == -1

PathRank(p) == CASE p = "dTE" -> 1 [] p = "dTI" -> 2 [] OTHER -> 3

RECURSIVE SortedPaths(_)
SortedPaths(P) ==
  IF P = {} THEN << >>
  ELSE With(CHOOSE x \in P : \A y \in P : PathRank(x) <= PathRank(y),
            LAMBDA m : <<m>> \o SortedPaths(P \ {m}))

\* _parse_recommendation: the parsed entry, or ok = FALSE for None
parse_recommendation(rec) ==
  IF \/ rec.proposed_response = NonStr
     \/ rec.rationale = NonStr
     \/ rec.urgency = NonInt
     \/ rec.generated_at.tz = "nonstr"
     \/ ~IsoParses(rec.generated_at)
  THEN [ok |-> FALSE, entry |-> rec]
  ELSE [ok |-> TRUE,
        entry |-> [proposed_response |-> rec.proposed_response,
                   urgency |-> rec.urgency,
                   rationale |-> rec.rationale,
                   generated_at |-> FromIso(rec.generated_at)]]

\* an entry of a conversation file that the loaders skip
Unreadable(e) ==
  \/ e.summary = NonStr
  \/ e.timestamp.tz = "nonstr"
  \/ ~IsoParses(e.timestamp)

\* The loop over one contact's entries in _load_existing (lines 225-253).
RECURSIVE LoadEntries(_, _, _, _, _)
LoadEntries(raws, i, bucket, n, dirty) ==
  IF i > Len(raws) THEN [bucket |-> bucket, uuid |-> n, dirty |-> dirty]
  ELSE IF Unreadable(raws[i]) THEN LoadEntries(raws, i + 1, bucket, n, dirty)
  ELSE LoadEntries(
         raws, i + 1,
         Append(bucket,
                [id |-> IF raws[i].id = 0 THEN n ELSE raws[i].id,
                 entry_type |-> IF raws[i].entry_type \notin ValidKinds
                                THEN "conversation" ELSE raws[i].entry_type,
                 summary |-> raws[i].summary,
                 timestamp |-> FromIso(raws[i].timestamp)]),
         IF raws[i].id = 0 THEN n + 1 ELSE n,
         dirty \/ raws[i].id = 0 \/ raws[i].entry_type \notin ValidKinds)

SetConversations(S, u, person, bucket) ==
  [S EXCEPT !.data[u].conversations = DPut(@, person, bucket)]

BucketOf(S, u, person) ==
  IF HasUser(S, u) /\ DHas(S.data[u].conversations, person)
  THEN DGet(S.data[u].conversations, person)
  ELSE << >>

\* The loop over the contacts of one conversation file (lines 219-256).
RECURSIVE LoadPersons(_, _, _, _, _)
LoadPersons(S, u, convs, i, n) ==
  IF i > Len(convs) THEN [s |-> S, uuid |-> n, raised |-> FALSE]
  ELSE With(LoadEntries(convs[i].v, 1, BucketOf(S, u, convs[i].k), n, FALSE),
         LAMBDA r :
           With(IF r.dirty
                THEN persist_user(
                       SetConversations(S, u, convs[i].k, r.bucket), u, {})
                ELSE [s |-> SetConversations(S, u, convs[i].k, r.bucket),
                      raised |-> FALSE],
                LAMBDA p :
                  IF p.raised
                  THEN [s |-> p.s, uuid |-> r.uuid, raised |-> TRUE]
                  ELSE LoadPersons(p.s, u, convs, i + 1, r.uuid)))

\* The loop over the recommendations of a file (lines 264-268, 344-347).
RECURSIVE LoadRecommendations(_, _, _)
LoadRecommendations(recs, raws, i) ==
  IF i > Len(raws) THEN recs
  ELSE With(parse_recommendation(raws[i].v), LAMBDA p :
         LoadRecommendations(
           IF p.ok THEN DPut(recs, raws[i].k, p.entry) ELSE recs, raws, i + 1))

SetUserFile(S, u, path) ==
  [S EXCEPT !.user_files = [x \in DOMAIN @ \cup {u} |->
                              IF x = u THEN path ELSE @[x]]]

SetRecommendationFile(S, u, path) ==
  [S EXCEPT !.recommendation_files = [x \in DOMAIN @ \cup {u} |->
                                        IF x = u THEN path ELSE @[x]]]

\* Lines 260-271: migrate the recommendations embedded in a conversation file.
MigrateRecommendations(S, u, raws) ==
  With([S EXCEPT !.data[u].recommendations = LoadRecommendations(@, raws, 1)],
       LAMBDA S1 :
         IF \E i \in 1..Len(raws) : parse_recommendation(raws[i].v).ok
         THEN persist_user(S1, u, {}) ELSE [s |-> S1, raised |-> FALSE])

\* One iteration of the loop over the conversation files (lines 203-271).
LoadConversationFile(S, path, n) ==
  IF S.conv_dir[path].user = "" THEN [s |-> S, uuid |-> n, raised |-> FALSE]
  ELSE With(LoadPersons(ensure_user(S, S.conv_dir[path].user),
                        S.conv_dir[path].user,
                        S.conv_dir[path].conversations, 1, n),
         LAMBDA r :
           IF r.raised THEN r
           ELSE With(MigrateRecommendations(
                       SetUserFile(r.s, S.conv_dir[path].user, path),
                       S.conv_dir[path].user,
                       S.conv_dir[path].recommendations),
                     LAMBDA g :
                       [s |-> g.s, uuid |-> r.uuid, raised |-> g.raised]))

RECURSIVE LoadConversationFiles(_, _, _, _)
LoadConversationFiles(S, paths, i, n) ==
  IF i > Len(paths) THEN [s |-> S, uuid |-> n, raised |-> FALSE]
  ELSE With(LoadConversationFile(S, paths[i], n), LAMBDA r :
         IF r.raised THEN r
         ELSE LoadConversationFiles(r.s, paths, i + 1, r.uuid))

RECURSIVE PersistAllRecommendations(_, _, _)
PersistAllRecommendations(S, users, i) ==
  IF i > Len(users) THEN S
  ELSE PersistAllRecommendations(
         IF S.data[users[i]].recommendations # << >>
         THEN persist_recommendations(S, users[i], {}).s ELSE S,
         users, i + 1)

\* _load_existing
load_existing(S, n) ==
  With(LoadConversationFiles(S, SortedPaths(JsonFiles(S.conv_dir)), 1, n),
       LAMBDA r :
         IF r.raised THEN r
         ELSE [s |-> PersistAllRecommendations(
                       r.s, SortedSeq(DOMAIN r.s.data), 1),
               uuid |-> r.uuid, raised |-> FALSE])

\* _load_existing_recommendations
RECURSIVE load_existing_recommendations(_, _, _)
load_existing_recommendations(S, paths, i) ==
  IF i > Len(paths) THEN S
  ELSE IF S.rec_dir[paths[i]].user = ""
  THEN load_existing_recommendations(S, paths, i + 1)
  ELSE With(ensure_user(S, S.rec_dir[paths[i]].user), LAMBDA S1 :
         load_existing_recommendations(
           SetRecommendationFile(
             [S1 EXCEPT !.data[S.rec_dir[paths[i]].user].recommendations =
                LoadRecommendations(@, S.rec_dir[paths[i]].recommendations, 1)],
             S.rec_dir[paths[i]].user, paths[i]),
           paths, i + 1))

EmptyFn == [x \in {} |-> 0]

\* ConversationStore.__init__ over the two directories. `use_s3` is what
\* s3_cache.enabled() answers; the attribute is assigned at the end, and an
\* exception of a load leaves no store object (ready stays FALSE) over the
\* directories as the load left them.
NewStore(conv_dir, rec_dir, use_s3, bucket, n) ==
  With(load_existing([data |-> EmptyFn, user_files |-> EmptyFn,
                      recommendation_files |-> EmptyFn,
                      conv_dir |-> conv_dir, rec_dir |-> rec_dir,
                      use_s3 |-> use_s3, bucket |-> bucket,
                      ready |-> FALSE, trace |-> << >>], n),
       LAMBDA r :
         IF r.raised THEN r
         ELSE [s |-> [load_existing_recommendations(
                        r.s, SortedPaths(JsonFiles(r.s.rec_dir)), 1)
                      EXCEPT !.ready = TRUE],
               uuid |-> r.uuid, raised |-> FALSE])

\* ------------------------------------------------------------ read-through
\* The loop over one contact's entries in _ensure_loaded (lines 414-432).
RECURSIVE HydrateEntries(_, _, _, _)
HydrateEntries(raws, i, bucket, n) ==
  IF i > Len(raws) THEN [bucket |-> bucket, uuid |-> n]
  ELSE HydrateEntries(
         raws, i + 1,
         IF Unreadable(raws[i]) THEN bucket
         ELSE Append(bucket,
                     [id |-> IF raws[i].id = 0 THEN n ELSE raws[i].id,
                      entry_type |-> IF raws[i].entry_type = "" THEN "conversation"
                                     ELSE raws[i].entry_type,
                      summary |-> raws[i].summary,
                      timestamp |-> FromIso(raws[i].timestamp)]),
         IF raws[i].id = 0 THEN n + 1 ELSE n)

RECURSIVE HydratePersons(_, _, _, _, _)
HydratePersons(S, u, convs, i, n) ==
  IF i > Len(convs) THEN [s |-> S, uuid |-> n]
  ELSE With(HydrateEntries(convs[i].v, 1, BucketOf(S, u, convs[i].k), n),
         LAMBDA r :
           HydratePersons(SetConversations(S, u, convs[i].k, r.bucket), u,
                          convs, i + 1, r.uuid))

\* s3_cache.download_if_exists: HEAD, then GET into dest_path. `io` names what
\* goes wrong: "s3probe" the HEAD raises an exception that is no ClientError
\* (the endpoint cannot be reached), "s3head" the HEAD raises a ClientError
\* other than 404, "s3get" the GET or the read of its body raises, "s3write"
\* write_bytes raises after a part of the body was written.
download_if_exists(S, key, dest, io) ==
  IF ~S.use_s3 THEN [s |-> S, ret |-> FALSE, raised |-> FALSE]
  ELSE With(Log(S, Event("head", "conv", key)), LAMBDA S1 :
    IF "s3probe" \in io THEN [s |-> S1, ret |-> FALSE, raised |-> TRUE]
    ELSE IF "s3head" \in io \/ key \notin DOMAIN S.bucket
    THEN [s |-> S1, ret |-> FALSE, raised |-> FALSE]
    ELSE With(Log(S1, Event("get", "conv", key)), LAMBDA S2 :
      IF "s3get" \in io THEN [s |-> S2, ret |-> FALSE, raised |-> FALSE]
      ELSE IF "s3write" \in io
      THEN [s |-> [S2 EXCEPT !.conv_dir = WriteFile(@, dest, Partial)],
            ret |-> FALSE, raised |-> FALSE]
      ELSE [s |-> [S2 EXCEPT !.conv_dir = WriteFile(@, dest, S.bucket[key])],
            ret |-> TRUE, raised |-> FALSE]))

\* faulty variant: the mirror is asked although the local file is there
HydrateFromMirrorAlways(S, u, io) ==
  IF S.use_s3
  THEN download_if_exists(S, Token(u), S.user_files[u], io).s
  ELSE S

\* Lines 392-398: fetch the conversation file from the mirror; an exception
\* of the download is logged and swallowed
HydrateFromMirror(S, u, io) ==
  IF S.user_files[u] \notin DOMAIN S.conv_dir /\ S.use_s3
  THEN download_if_exists(S, Token(u), S.user_files[u], io).s
  ELSE S

\* Lines 403-432: parse the user's conversation file
HydrateConversations(S, u, n) ==
  IF /\ S.user_files[u] \in DOMAIN S.conv_dir
     /\ S.conv_dir[S.user_files[u]].user = u
  THEN HydratePersons(ensure_user(S, u), u,
                      S.conv_dir[S.user_files[u]].conversations, 1, n)
  ELSE [s |-> S, uuid |-> n]

\* Lines 433-444: parse the user's recommendation file
HydrateRecommendations(S, u) ==
  IF /\ S.recommendation_files[u] \in DOMAIN S.rec_dir
     /\ S.rec_dir[S.recommendation_files[u]].user = u
  THEN With(ensure_user(S, u), LAMBDA S1 :
         [S1 EXCEPT !.data[u].recommendations =
            LoadRecommendations(
              @, S.rec_dir[S.recommendation_files[u]].recommendations, 1)])
  ELSE S

\* _ensure_loaded
ensure_loaded(S, u, n, io) ==
  IF HasUser(S, u) THEN [s |-> S, uuid |-> n]
  ELSE With(HydrateConversations(
              HydrateFromMirror(
                path_for_recommendations(path_for_user(S, u), u), u, io),
              u, n),
         LAMBDA r : [s |-> HydrateRecommendations(r.s, u), uuid |-> r.uuid])

\* --------------------------------------------------------- public methods
NoEntry == [id |-> 0, entry_type |-> "", summary |-> "", timestamp |-> 0]
NoRecommendation ==
  [proposed_response |-> "", urgency |-> 0, rationale |-> "", generated_at |-> 0]

\* faulty variant: an unknown id falls back to the first entry
IndexOfOrFirst(entries, id) ==
  IF \E i \in 1..Len(entries) : entries[i].id = id
  THEN CHOOSE i \in 1..Len(entries) :
         /\ entries[i].id = id
         /\ \A j \in 1..(i - 1) : entries[j].id # id
  ELSE IF entries # << >> THEN 1 ELSE 0

\* index of the first entry with the id, 0 when there is none
IndexOf(entries, id) ==
  IF \E i \in 1..Len(entries) : entries[i].id = id
  THEN CHOOSE i \in 1..Len(entries) :
         /\ entries[i].id = id
         /\ \A j \in 1..(i - 1) : entries[j].id # id
  ELSE 0

\* faulty variant: the last entry is moved into the place of the removed one
RemoveAtSwapping(seq, i) ==
  IF i = Len(seq) THEN SubSeq(seq, 1, i - 1)
  ELSE SubSeq(seq, 1, i - 1) \o <<seq[Len(seq)]>> \o SubSeq(seq, i + 1, Len(seq) - 1)

\* entries.pop(index)
RemoveAt(seq, i) == SubSeq(seq, 1, i - 1) \o SubSeq(seq, i + 1, Len(seq))

\* faulty variant: the cached recommendation survives the mutation
PopRecommendationKept(S, u, person) == S

PopRecommendation(S, u, person) ==
  [S EXCEPT !.data[u].recommendations = DPop(@, person)]

\* Lines 83-84: the two persists of add_entry
PersistBoth(S, u, io) ==
  With(persist_user(S, u, io), LAMBDA p :
    IF p.raised THEN p ELSE persist_recommendations(p.s, u, io))

\* Lines 73-82: the entry is appended in memory, the recommendation dropped
Appended(S, u, person, summary, entry_type, id, ts) ==
  With(ensure_user(S, u), LAMBDA S1 :
    PopRecommendation(
      SetConversations(
        S1, u, person,
        Append(BucketOf(S1, u, person),
               [id |-> id, entry_type |-> entry_type,
                summary |-> Strip(summary), timestamp |-> ts])),
      u, person))

add_entry(S, u, person, summary, entry_type, id, ts, io) ==
  With(PersistBoth(Appended(S, u, person, summary, entry_type, id, ts), u, io),
       LAMBDA p : [s |-> p.s, ret |-> id, raised |-> p.raised])

get_entry(S, u, person, id) ==
  With(IndexOf(BucketOf(S, u, person), id), LAMBDA i :
    IF i = 0 THEN [found |-> FALSE, entry |-> NoEntry]
    ELSE [found |-> TRUE, entry |-> BucketOf(S, u, person)[i]])

\* Lines 172-176 of update_entry, for the entry at index i
UpdateAt(S, u, person, i, summary, entry_type, io) ==
  With(persist_user(
         PopRecommendation(
           [S EXCEPT !.data[u].conversations =
              DPut(@, person,
                   [DGet(@, person) EXCEPT
                      ![i].summary = Strip(summary),
                      ![i].entry_type =
                         IF entry_type # NoKind THEN entry_type ELSE @])],
           u, person),
         u, io),
       LAMBDA p : [s |-> p.s, ret |-> TRUE, raised |-> p.raised])

update_entry(S, u, person, id, summary, entry_type, io) ==
  With(IndexOf(BucketOf(S, u, person), id), LAMBDA i :
    IF ~HasUser(S, u) \/ BucketOf(S, u, person) = << >> \/ i = 0
    THEN [s |-> S, ret |-> FALSE, raised |-> FALSE]
    ELSE UpdateAt(S, u, person, i, summary, entry_type, io))

\* faulty variant: the emptied bucket stays in the user's conversations
DeleteAtKeepsBucket(S, u, person, i, io) ==
  With(persist_user(
         PopRecommendation(
           SetConversations(S, u, person, RemoveAt(BucketOf(S, u, person), i)),
           u, person),
         u, io),
       LAMBDA p : [s |-> p.s, ret |-> TRUE, raised |-> p.raised])

\* Lines 191-197 of delete_entry, for the entry at index i
DeleteAt(S, u, person, i, io) ==
  With(persist_user(
         PopRecommendation(
           IF Len(BucketOf(S, u, person)) = 1
           THEN [S EXCEPT !.data[u].conversations = DPop(@, person)]
           ELSE SetConversations(S, u, person,
                                 RemoveAt(BucketOf(S, u, person), i)),
           u, person),
         u, io),
       LAMBDA p : [s |-> p.s, ret |-> TRUE, raised |-> p.raised])

delete_entry(S, u, person, id, io) ==
  With(IndexOf(BucketOf(S, u, person), id), LAMBDA i :
    IF ~HasUser(S, u) \/ BucketOf(S, u, person) = << >> \/ i = 0
    THEN [s |-> S, ret |-> FALSE, raised |-> FALSE]
    ELSE DeleteAt(S, u, person, i, io))

\* Lines 125-126: the recommendation is put in memory
Recommended(S, u, person, rec) ==
  With(ensure_user(S, u), LAMBDA S1 :
    [S1 EXCEPT !.data[u].recommendations = DPut(@, person, rec)])

set_recommendation(S, u, person, rec, io) ==
  persist_recommendations(Recommended(S, u, person, rec), u, io)

people_for_user(S, u, n, io) ==
  With(ensure_loaded(S, u, n, io), LAMBDA r :
    [s |-> r.s, uuid |-> r.uuid,
     ret |-> IF HasUser(r.s, u)
             THEN SortedSeq(DKeys(r.s.data[u].conversations)) ELSE << >>])

conversations(S, u, person, n, io) ==
  With(ensure_loaded(S, u, n, io), LAMBDA r :
    [s |-> r.s, uuid |-> r.uuid, ret |-> BucketOf(r.s, u, person)])

recommendation_for(S, u, person, n, io) ==
  With(ensure_loaded(S, u, n, io), LAMBDA r :
    [s |-> r.s, uuid |-> r.uuid,
     found |-> HasUser(r.s, u) /\ DHas(r.s.data[u].recommendations, person),
     ret |-> IF HasUser(r.s, u) /\ DHas(r.s.data[u].recommendations, person)
             THEN DGet(r.s.data[u].recommendations, person)
             ELSE NoRecommendation])

recommendations_for_user(S, u) ==
  IF HasUser(S, u) THEN S.data[u].recommendations ELSE << >>

users(S) == SortedSeq(DOMAIN S.data)

\* ------------------------------------------------------------------ state
VARIABLES
  store,        \* the ConversationStore object and its directories
  uuid,         \* the next value uuid4() yields
  wall,         \* datetime.now(timezone.utc), in hours
  mono,         \* time.monotonic(), in hours
  apiKey,       \* config.openai_api_key is set
  refreshHours, \* config.followup_refresh_hours
  lastRun,      \* app.state._followup_last_run
  inProgress,   \* app.state._followup_in_progress (its keys)
  lockOwner,    \* the request holding app.state._followup_refresh_lock, 0 if free
  lockWaiters,  \* the requests queued on the lock, first come first
  req,          \* per request: where its coroutine stands
  run,          \* the locals of the _refresh_followups call in flight
  storeLock,    \* the thread holding ConversationStore._lock, Free if none
  calls         \* per thread: the store call it is in, and where it stands

vars == <<store, uuid, wall, mono, apiKey, refreshHours, lastRun, inProgress,
          lockOwner, lockWaiters, req, run, storeLock, calls>>

lockVars == <<storeLock, calls>>

schedVars == <<apiKey, refreshHours, lastRun, inProgress, lockOwner,
               lockWaiters, req, run>>

MaxTime == 3        \* hours the clocks advance in one behaviour
Procs == {1, 2}     \* the refresh requests of a behaviour
Global == "__global__"
NoFilter == ""      \* user_filter=None
RefreshChoices == {2} \* config.followup_refresh_hours: an interval is configured
BootTimes == {0, 2} \* what time.monotonic() reads when the process starts

NoIo == {}

\* a request that is not issued yet; each request of Procs is issued once
IdleReq == [pc |-> "idle", force |-> FALSE, filter |-> NoFilter,
            outcome |-> "none"]

\* The locals of _refresh_followups and of the maybe_refresh_followups call
\* around it:
\*   p, key, force   the request running it, its scheduling key, its force flag
\*   users, ui       the target users and the position of the outer loop
\*   people, pi      the contact list of users[ui] and the position in it
\*                   (pi = 0: the list is not read yet)
\*   now             datetime.now() taken at line 152
\*   callTime        current_time passed to the Generator call in flight
\*   had, age        `existing` of line 162 for the contact at pi: whether there
\*                   is one, and now - existing.generated_at
\*   log             what the loop read and did for each contact it reached
\*   snap            the contact lists it read
\*   outcome         "running", then "completed" or "raised"
NoRun == [p |-> 0, key |-> "", force |-> FALSE, users |-> << >>, ui |-> 1,
          people |-> << >>, pi |-> 0, now |-> 0, callTime |-> 0,
          had |-> FALSE, age |-> 0,
          log |-> << >>, snap |-> << >>, outcome |-> "none"]

EmptyStore == NewStore(EmptyFn, EmptyFn, FALSE, EmptyFn, 1).s

\* The threads that call the store: two that serve requests, and the one
\* that runs a refresh. No thread holds the lock between two calls.
Handlers == {"h1", "h2"}
Loop == "loop"
Threads == Handlers \cup {Loop}
Free == "none"
IdleCall == [pc |-> "idle", op |-> "none", u |-> "", c |-> "", id |-> 0,
             summary |-> "", kind |-> "", history |-> << >>]

\* ------------------------------------------------------- store handlers
\* a call starts with an empty trace
Call(S) == [S EXCEPT !.trace = << >>]

\* The web handlers call the store on the event loop, so each call is one
\* step. `io` names the file writes that fail during the call.
AddEntry(u, person, summary, kind, io) ==
  /\ store.ready
  /\ uuid <= MaxIds
  /\ Len(BucketOf(store, u, person)) < MaxEntries
  /\ store' = add_entry(Call(store), u, person, summary, kind, uuid, wall, io).s
  /\ uuid' = uuid + 1
  /\ UNCHANGED <<wall, mono, schedVars, lockVars>>

GetEntry(u, person, id) ==
  /\ store.ready
  /\ get_entry(store, u, person, id).found \in BOOLEAN
  /\ UNCHANGED <<store, uuid, wall, mono, schedVars, lockVars>>

UpdateEntry(u, person, id, summary, kind, io) ==
  /\ store.ready
  /\ store' = update_entry(Call(store), u, person, id, summary, kind, io).s
  /\ UNCHANGED <<uuid, wall, mono, schedVars, lockVars>>

DeleteEntry(u, person, id, io) ==
  /\ store.ready
  /\ store' = delete_entry(Call(store), u, person, id, io).s
  /\ UNCHANGED <<uuid, wall, mono, schedVars, lockVars>>

\* The scheduler is the only caller, for a contact it found entries for.
SetRecommendation(u, person, rec, io) ==
  /\ store.ready
  /\ BucketOf(store, u, person) # << >>
  /\ store' = set_recommendation(Call(store), u, person, rec, io).s
  /\ UNCHANGED <<uuid, wall, mono, schedVars, lockVars>>

\* What is left when __init__ raised: the directories and the mirror, no store
\* object; no handler runs until a later start succeeds.
Down(S) ==
  [S EXCEPT !.data = EmptyFn, !.user_files = EmptyFn,
            !.recommendation_files = EmptyFn, !.trace = << >>,
            !.ready = FALSE]

\* A new process over the same directories: ConversationStore.__init__
Restart ==
  /\ Do(NewStore(store.conv_dir, store.rec_dir, store.use_s3,
                   store.bucket, uuid),
          LAMBDA r : /\ store' = IF r.raised THEN Down(r.s) ELSE r.s
                     /\ uuid' = r.uuid)
  /\ UNCHANGED <<wall, mono, schedVars, lockVars>>

StoreRecs ==
  {[proposed_response |-> "ping", urgency |-> 5, rationale |-> "due",
    generated_at |-> wall]}

StoreInit ==
  /\ store = EmptyStore
  /\ uuid = 1
  /\ wall = 0
  /\ mono = 0
  /\ apiKey = TRUE
  /\ refreshHours = 2
  /\ lastRun = EmptyFn
  /\ inProgress = {}
  /\ lockOwner = 0
  /\ lockWaiters = << >>
  /\ req = [p \in Procs |-> IdleReq]
  /\ run = NoRun
  /\ storeLock = Free
  /\ calls = [t \in Threads |-> IdleCall]

StoreNext ==
  \/ \E x \in Pairs, s \in AddSummaries, k \in Kinds :
       AddEntry(x[1], x[2], s, k, NoIo)
  \/ \E x \in Pairs, id \in 1..MaxIds : GetEntry(x[1], x[2], id)
  \/ \E x \in Pairs, id \in 1..MaxIds, s \in UpdateSummaries,
        k \in UpdateKinds : UpdateEntry(x[1], x[2], id, s, k, NoIo)
  \/ \E x \in Pairs, id \in 1..MaxIds : DeleteEntry(x[1], x[2], id, NoIo)
  \/ \E x \in Pairs, rec \in StoreRecs :
       SetRecommendation(x[1], x[2], rec, NoIo)
  \/ Restart

SpecStore == StoreInit /\ [][StoreNext]_vars

\* ------------------------------------------------- the store with a mirror
\* The read accessors that hydrate a user on first access.
PeopleForUser(u, io) ==
  /\ store.ready
  /\ Do(people_for_user(Call(store), u, uuid, io),
          LAMBDA r : store' = r.s /\ uuid' = r.uuid)
  /\ UNCHANGED <<wall, mono, schedVars, lockVars>>

Conversations(u, person, io) ==
  /\ store.ready
  /\ Do(conversations(Call(store), u, person, uuid, io),
          LAMBDA r : store' = r.s /\ uuid' = r.uuid)
  /\ UNCHANGED <<wall, mono, schedVars, lockVars>>

RecommendationFor(u, person, io) ==
  /\ store.ready
  /\ Do(recommendation_for(Call(store), u, person, uuid, io),
          LAMBDA r : store' = r.s /\ uuid' = r.uuid)
  /\ UNCHANGED <<wall, mono, schedVars, lockVars>>

\* A new process on a machine with empty directories and the same mirror.
Redeploy ==
  /\ store.conv_dir # EmptyFn
  /\ Do(NewStore(EmptyFn, EmptyFn, store.use_s3, store.bucket, uuid),
          LAMBDA r : store' = r.s /\ uuid' = r.uuid)
  /\ UNCHANGED <<wall, mono, schedVars, lockVars>>

\* What the mirror holds when the first process starts: nothing, or the
\* conversation file an earlier machine uploaded for u1.
RemoteDoc ==
  [user |-> "u1",
   conversations |->
     <<[k |-> "alice",
        v |-> <<[id |-> 9, entry_type |-> "note", summary |-> "hi",
                 timestamp |-> IsoFormat(0)]>>]>>,
   recommendations |-> << >>]
RemoteChoices == {EmptyFn, [k \in {Token("u1")} |-> RemoteDoc]}

\* the ids the handlers are called with: generated ones and the remote one
MirrorIds == 1..MaxIds \cup {9}

MirrorPairs == {<<"u1", "alice">>}
UploadFaults == {{}, {"s3put"}}
DownloadFaults == {{}, {"s3probe"}, {"s3head"}, {"s3get"}, {"s3write"}}

MirrorInit ==
  /\ \E enabled \in BOOLEAN, remote \in RemoteChoices :
       store = NewStore(EmptyFn, EmptyFn, enabled, remote, 1).s
  /\ uuid = 1
  /\ wall = 0
  /\ mono = 0
  /\ apiKey = TRUE
  /\ refreshHours = 2
  /\ lastRun = EmptyFn
  /\ inProgress = {}
  /\ lockOwner = 0
  /\ lockWaiters = << >>
  /\ req = [p \in Procs |-> IdleReq]
  /\ run = NoRun
  /\ storeLock = Free
  /\ calls = [t \in Threads |-> IdleCall]

MirrorNext ==
  \/ \E x \in MirrorPairs, s \in AddSummaries, k \in ValidKinds,
        io \in UploadFaults : AddEntry(x[1], x[2], s, k, io)
  \/ \E x \in MirrorPairs, id \in MirrorIds :
       GetEntry(x[1], x[2], id)
  \/ \E x \in MirrorPairs, id \in MirrorIds,
        s \in UpdateSummaries, k \in UpdateKinds, io \in UploadFaults :
       UpdateEntry(x[1], x[2], id, s, k, io)
  \/ \E x \in MirrorPairs, id \in MirrorIds,
        io \in UploadFaults : DeleteEntry(x[1], x[2], id, io)
  \/ \E x \in MirrorPairs, rec \in StoreRecs :
       SetRecommendation(x[1], x[2], rec, NoIo)
  \/ \E u \in Users, io \in DownloadFaults : PeopleForUser(u, io)
  \/ \E x \in MirrorPairs, io \in DownloadFaults :
       Conversations(x[1], x[2], io)
  \/ \E x \in MirrorPairs, io \in DownloadFaults :
       RecommendationFor(x[1], x[2], io)
  \/ Restart
  \/ Redeploy

SpecMirror == MirrorInit /\ [][MirrorNext]_vars

\* ------------------------------------------------ persists and crashes
\* The process is killed while add_entry persists the conversation file: the
\* directory stays in the k-th state of the persist, the memory is gone.
CrashInAddEntry(u, person, summary, kind, k) ==
  /\ store.ready
  /\ uuid <= MaxIds
  /\ Len(BucketOf(store, u, person)) < MaxEntries
  /\ Do(path_for_user(
            Appended(Call(store), u, person, summary, kind, uuid, wall), u),
          LAMBDA M :
            Do(AtomicWrite(M.conv_dir, M.user_files[u], UserDoc(M, u), "none"),
                 LAMBDA stages :
                   /\ k \in 1..Len(stages)
                   /\ store' = Down([M EXCEPT !.conv_dir = stages[k]])))
  /\ uuid' = uuid + 1
  /\ UNCHANGED <<wall, mono, schedVars, lockVars>>

\* The same while set_recommendation persists the recommendation file.
CrashInSetRecommendation(u, person, rec, k) ==
  /\ store.ready
  /\ BucketOf(store, u, person) # << >>
  /\ Do(path_for_recommendations(
            Recommended(Call(store), u, person, rec), u),
          LAMBDA M :
            Do(AtomicWrite(M.rec_dir, M.recommendation_files[u],
                             RecDoc(M, u), "none"),
                 LAMBDA stages :
                   /\ k \in 1..Len(stages)
                   /\ store' = Down([M EXCEPT !.rec_dir = stages[k]])))
  /\ UNCHANGED <<uuid, wall, mono, schedVars, lockVars>>

PersistPairs == {<<"u1", "alice">>, <<"u2", "alice">>}
WriteFaults == {{}, {"conv"}, {"rec"}}
Stages == 1..3

PersistNext ==
  \/ \E x \in PersistPairs, s \in AddSummaries, k \in ValidKinds,
        io \in WriteFaults : AddEntry(x[1], x[2], s, k, io)
  \/ \E x \in PersistPairs, id \in 1..MaxIds : DeleteEntry(x[1], x[2], id, NoIo)
  \/ \E x \in PersistPairs, rec \in StoreRecs, io \in WriteFaults :
       SetRecommendation(x[1], x[2], rec, io)
  \/ \E x \in PersistPairs, s \in AddSummaries, k \in ValidKinds, i \in Stages :
       CrashInAddEntry(x[1], x[2], s, k, i)
  \/ \E x \in PersistPairs, rec \in StoreRecs, i \in Stages :
       CrashInSetRecommendation(x[1], x[2], rec, i)
  \/ Restart

SpecPersist == StoreInit /\ [][PersistNext]_vars

\* ------------------------------------------- starting over persisted files
\* What a conversation file written by hand, by an older version or by a
\* failing disk can hold for an entry.
RawIds == {7, 8}
RawGood  == [id |-> 7, entry_type |-> "note", summary |-> "hi",
             timestamp |-> [t |-> 0, tz |-> "+00:00"]]
RawNaive == [RawGood EXCEPT !.id = 8, !.timestamp.tz = "naive"]
RawNoId  == [RawGood EXCEPT !.id = 0]
RawNoKind == [RawGood EXCEPT !.id = 8, !.entry_type = ""]
RawMemo  == [RawGood EXCEPT !.id = 8, !.entry_type = "memo"]
RawNoSummary == [RawGood EXCEPT !.id = 8, !.summary = NonStr]
RawBadTime == [RawGood EXCEPT !.id = 8, !.timestamp.tz = "bad"]
RawNoTime == [RawGood EXCEPT !.id = 8, !.timestamp.tz = "nonstr"]
RawEntries == {RawGood, RawNaive, RawNoId, RawNoKind, RawMemo, RawNoSummary,
               RawBadTime, RawNoTime}

RawBuckets ==
  {<<e>> : e \in RawEntries} \cup {<<e, f>> : e \in RawEntries, f \in {RawGood, RawNoId}}

RawDocs ==
  {[user |-> "u1", conversations |-> <<[k |-> "alice", v |-> a]>>,
    recommendations |-> << >>] : a \in RawBuckets}
  \cup
  {[user |-> "u1",
    conversations |-> <<[k |-> "alice", v |-> a], [k |-> "bob", v |-> <<b>>]>>,
    recommendations |-> << >>] : a \in RawBuckets, b \in {RawGood, RawNoSummary}}

\* A recommendation as a file holds it, and the conversation files of an
\* older version, which kept the recommendations next to the conversations.
RawRec ==
  [proposed_response |-> "ping", urgency |-> 5, rationale |-> "due",
   generated_at |-> [t |-> 0, tz |-> "+00:00"]]
RawRecNaive == [RawRec EXCEPT !.generated_at.tz = "naive"]
RawRecNoText == [RawRec EXCEPT !.proposed_response = NonStr]

LegacyDocs ==
  {[user |-> "u1", conversations |-> <<[k |-> "alice", v |-> <<RawGood>>]>>,
    recommendations |-> recs] :
     recs \in {<<[k |-> "alice", v |-> RawRec]>>,
               <<[k |-> "alice", v |-> RawRecNaive]>>,
               <<[k |-> "alice", v |-> RawRecNoText]>>,
               <<[k |-> "alice", v |-> RawRecNoText],
                 [k |-> "bob", v |-> RawRec]>>}}

\* Recommendation files: with an urgency in the range the Generator's schema
\* allows, above it, below it, or without an integer urgency.
RawRecHigh == [RawRec EXCEPT !.urgency = 11]
RawRecLow == [RawRec EXCEPT !.urgency = 0]
RawRecNoUrgency == [RawRec EXCEPT !.urgency = NonInt]

RecFileDocs ==
  {[user |-> "u1", recommendations |-> <<[k |-> "alice", v |-> r]>>] :
     r \in {RawRec, RawRecHigh, RawRecLow, RawRecNoUrgency}}

\* No process yet: a conversation file on the disk, or in the mirror of a
\* machine whose disk is empty; or a recommendation file next to a
\* conversation file, which may embed recommendations itself; or a
\* conversation file of u1 under the name that the token of u2 gives.
Disk(conv_dir, bucket, use_s3) ==
  [data |-> EmptyFn, user_files |-> EmptyFn, recommendation_files |-> EmptyFn,
   conv_dir |-> conv_dir, rec_dir |-> EmptyFn, use_s3 |-> use_s3,
   bucket |-> bucket, ready |-> FALSE, trace |-> << >>]

LoadInit ==
  /\ \/ \E doc \in RawDocs \cup LegacyDocs :
          \/ store = Disk([k \in {Token("u1")} |-> doc], EmptyFn, FALSE)
          \/ store = Disk(EmptyFn, [k \in {Token("u1")} |-> doc], TRUE)
     \/ \E rdoc \in RecFileDocs :
          store = [Disk([k \in {Token("u1")} |->
                           [user |-> "u1",
                            conversations |-> <<[k |-> "alice", v |-> <<RawGood>>]>>,
                            recommendations |-> << >>]],
                        EmptyFn, FALSE)
                   EXCEPT !.rec_dir = [k \in {Token("u1")} |-> rdoc]]
     \/ \E doc \in LegacyDocs, rdoc \in RecFileDocs :
          store = [Disk([k \in {Token("u1")} |-> doc], EmptyFn, FALSE)
                   EXCEPT !.rec_dir = [k \in {Token("u1")} |-> rdoc]]
     \/ store = Disk([k \in {Token("u2")} |->
                        [user |-> "u1",
                         conversations |-> <<[k |-> "alice", v |-> <<RawGood>>]>>,
                         recommendations |-> << >>]],
                     EmptyFn, FALSE)
  /\ uuid = 1
  /\ wall = 0
  /\ mono = 0
  /\ apiKey = TRUE
  /\ refreshHours = 2
  /\ lastRun = EmptyFn
  /\ inProgress = {}
  /\ lockOwner = 0
  /\ lockWaiters = << >>
  /\ req = [p \in Procs |-> IdleReq]
  /\ run = NoRun
  /\ storeLock = Free
  /\ calls = [t \in Threads |-> IdleCall]

LoadNext ==
  \/ Restart
  \/ \E u \in {"u1"} : PeopleForUser(u, NoIo)
  \/ \E id \in RawIds : DeleteEntry("u1", "alice", id, NoIo)
  \/ \E s \in AddSummaries : AddEntry("u2", "alice", s, "note", NoIo)

SpecLoad == LoadInit /\ [][LoadNext]_vars

\* ------------------------------------------- a contact with three entries
\* A conversation file the store wrote earlier: three entries of one contact,
\* in the order they were added.
OrderEntry(id) ==
  [RawGood EXCEPT !.id = id, !.summary = "yo", !.entry_type = "conversation"]

OrderDoc ==
  [user |-> "u1",
   conversations |->
     <<[k |-> "alice", v |-> <<OrderEntry(7), OrderEntry(8), OrderEntry(9)>>]>>,
   recommendations |-> << >>]

\* the ids the handlers are called with: generated ones and those of the file
OrderIds == 1..MaxIds \cup {7, 8, 9}

OrderInit ==
  /\ store = NewStore([k \in {Token("u1")} |-> OrderDoc], EmptyFn, FALSE,
                      EmptyFn, 1).s
  /\ uuid = 1
  /\ wall = 0
  /\ mono = 0
  /\ apiKey = TRUE
  /\ refreshHours = 2
  /\ lastRun = EmptyFn
  /\ inProgress = {}
  /\ lockOwner = 0
  /\ lockWaiters = << >>
  /\ req = [p \in Procs |-> IdleReq]
  /\ run = NoRun
  /\ storeLock = Free
  /\ calls = [t \in Threads |-> IdleCall]

OrderNext ==
  \/ \E s \in AddSummaries, k \in ValidKinds :
       AddEntry("u1", "alice", s, k, NoIo)
  \/ \E id \in OrderIds, s \in UpdateSummaries, k \in UpdateKinds :
       UpdateEntry("u1", "alice", id, s, k, NoIo)
  \/ \E id \in OrderIds : DeleteEntry("u1", "alice", id, NoIo)
  \/ Restart

SpecOrder == OrderInit /\ [][OrderNext]_vars

\* ------------------------------------------- store calls made by threads
\* A store call, step by step: the thread blocks on `with self._lock`, gets
\* the lock, and leaves the with block when the method body has run. The
\* body of a mutation changes the memory and writes the temporary sibling,
\* renames it over the target, and does what follows the rename.

\* faulty variant: the with block is entered whoever holds the lock
StoreLockIgnored(t) == TRUE

\* threading.RLock: free, or already held by the calling thread
StoreLockFree(t) == storeLock \in {Free, t}

\* faulty variant: the refresh keeps the lock after the read of the history
SnapshotKeepsLock(t) == t

\* the end of `with self._lock` in conversations(): the lock's holder when the
\* method has returned
AfterSnapshot(t) == Free

\* add_entry(user, person, summary, entry_type), lines 73-79: the entry is
\* built, then the thread waits for the lock.
CallAddEntry(t, u, person, summary, kind) ==
  /\ store.ready
  /\ calls[t].pc = "idle"
  /\ uuid <= MaxIds
  /\ Len(BucketOf(store, u, person)) < MaxEntries
  /\ calls' = [calls EXCEPT ![t] = [pc |-> "waiting", op |-> "add", u |-> u,
                                    c |-> person, id |-> uuid,
                                    summary |-> summary, kind |-> kind,
                                    history |-> << >>]]
  /\ uuid' = uuid + 1
  /\ UNCHANGED <<store, storeLock, wall, mono, schedVars>>

\* conversations(user, person) called by _refresh_followups (line 158)
CallConversations(t, u, person) ==
  /\ store.ready
  /\ calls[t].pc = "idle"
  /\ calls' = [calls EXCEPT ![t] = [IdleCall EXCEPT !.pc = "waiting",
                                                    !.op = "read", !.u = u,
                                                    !.c = person]]
  /\ UNCHANGED <<store, uuid, storeLock, wall, mono, schedVars>>

\* with self._lock: the thread enters the block
Acquire(t) ==
  /\ calls[t].pc = "waiting"
  /\ StoreLockFree(t)
  /\ storeLock' = t
  /\ calls' = [calls EXCEPT ![t].pc = "held"]
  /\ UNCHANGED <<store, uuid, wall, mono, schedVars>>

\* Lines 100-103 and 159-168: conversations() returns and releases the lock;
\* with entries the refresh goes on to the Generator call with the list it
\* read (entries, line 158), without it is over.
ReadDone(t) ==
  /\ calls[t].pc = "held"
  /\ calls[t].op = "read"
  /\ storeLock' = AfterSnapshot(t)
  /\ calls' = [calls EXCEPT ![t] =
                 IF conversations(store, @.u, @.c, uuid, NoIo).ret = << >>
                 THEN IdleCall
                 ELSE [calls[t] EXCEPT
                         !.pc = "generating",
                         !.history = conversations(store, calls[t].u,
                                                   calls[t].c, uuid,
                                                   NoIo).ret]]
  /\ UNCHANGED <<store, uuid, wall, mono, schedVars>>

\* generate_followup returned: set_recommendation is called (line 185)
GeneratorDone(t) ==
  /\ calls[t].pc = "generating"
  /\ calls' = [calls EXCEPT ![t].pc = "waiting", ![t].op = "set"]
  /\ UNCHANGED <<store, uuid, storeLock, wall, mono, schedVars>>

\* generate_followup raised: the refresh goes on without a store call
GeneratorRaised(t) ==
  /\ calls[t].pc = "generating"
  /\ calls' = [calls EXCEPT ![t] = IdleCall]
  /\ UNCHANGED <<store, uuid, storeLock, wall, mono, schedVars>>

\* what the Generator returned for the call
CallRec ==
  [proposed_response |-> "ping", urgency |-> 5, rationale |-> "due",
   generated_at |-> wall]

\* the memory after the first lines of the body (80-82, 125-126) and the
\* path lookup of the persist
Mutated(S, c) ==
  IF c.op = "add"
  THEN path_for_user(
         Appended(S, c.u, c.c, c.summary, c.kind, c.id, wall), c.u)
  ELSE path_for_recommendations(Recommended(S, c.u, c.c, CallRec), c.u)

\* tmp_path.write_text(...) of the persist (lines 301, 381)
WriteTemp(t) ==
  /\ calls[t].pc = "held"
  /\ calls[t].op \in {"add", "set"}
  /\ Do(Mutated(store, calls[t]), LAMBDA M :
       store' =
         IF calls[t].op = "add"
         THEN [M EXCEPT !.conv_dir =
                 AtomicWrite(@, M.user_files[calls[t].u],
                             UserDoc(M, calls[t].u), "none")[2]]
         ELSE [M EXCEPT !.rec_dir =
                 AtomicWrite(@, M.recommendation_files[calls[t].u],
                             RecDoc(M, calls[t].u), "none")[2]])
  /\ calls' = [calls EXCEPT ![t].pc = "written"]
  /\ UNCHANGED <<uuid, storeLock, wall, mono, schedVars>>

\* tmp_path.replace(path): the sibling takes the target's name; without a
\* sibling the call raises and the directory stays
Replace(dir, path) ==
  IF TmpOf(path) \in DOMAIN dir
  THEN WriteFile(Unlink(dir, TmpOf(path)), path, dir[TmpOf(path)])
  ELSE dir

\* tmp_path.replace(path) of the persist (lines 302, 382)
Rename(t) ==
  /\ calls[t].pc = "written"
  /\ store' =
       IF calls[t].op = "add"
       THEN [store EXCEPT !.conv_dir = Replace(@, store.user_files[calls[t].u])]
       ELSE [store EXCEPT !.rec_dir =
               Replace(@, store.recommendation_files[calls[t].u])]
  /\ calls' = [calls EXCEPT ![t].pc = "renamed"]
  /\ UNCHANGED <<uuid, storeLock, wall, mono, schedVars>>

\* The rest of the body (the upload to the mirror, and line 84 of add_entry)
\* and the end of the with block.
Return(t) ==
  /\ calls[t].pc = "renamed"
  /\ store' =
       IF calls[t].op = "add"
       THEN persist_recommendations(
              s3_upload_user(store, calls[t].u, NoIo).s, calls[t].u, NoIo).s
       ELSE store
  /\ storeLock' = Free
  /\ calls' = [calls EXCEPT ![t] = IdleCall]
  /\ UNCHANGED <<uuid, wall, mono, schedVars>>

LockPairs == {<<"u1", "alice">>, <<"u2", "alice">>}

LockNext ==
  \/ \E t \in Handlers, x \in LockPairs, s \in AddSummaries :
       CallAddEntry(t, x[1], x[2], s, "note")
  \/ \E x \in LockPairs : CallConversations(Loop, x[1], x[2])
  \/ \E t \in Threads : Acquire(t)
  \/ ReadDone(Loop)
  \/ GeneratorDone(Loop)
  \/ GeneratorRaised(Loop)
  \/ \E t \in Threads : WriteTemp(t)
  \/ \E t \in Threads : Rename(t)
  \/ \E t \in Threads : Return(t)

SpecLock == StoreInit /\ [][LockNext]_vars

\* ------------------------------------------------------------ scheduler
\* The clocks count hours, so FOLLOWUP_REFRESH_INTERVAL_SECONDS and max_age
\* are both refreshHours; 0 disables the gate and the freshness skip.
Interval == IF refreshHours > 0 THEN refreshHours ELSE 0

\* key = user_filter or "__global__"
KeyOf(filter) == IF filter = NoFilter THEN Global ELSE filter

\* app.state._followup_last_run.get(key, 0.0)
Last(key) == IF key \in DOMAIN lastRun THEN lastRun[key] ELSE 0

\* the gate of lines 121-125
Gated(force, key) ==
  ~force /\ Interval # 0 /\ (mono - Last(key)) < Interval

\* faulty variant: a cached recommendation is kept whatever its age
FreshWhenCached(R, existing) == ~R.force /\ existing.found

\* faulty variant: a forced run keeps the recommendations that are not yet due
FreshThoughForced(R, existing) ==
  /\ existing.found
  /\ refreshHours > 0
  /\ (R.now - existing.ret.generated_at) < refreshHours

\* faulty variant: a run that is not forced keeps every contact as it is
FreshUnlessForced(R, existing) == ~R.force

\* faulty variant: the gate is not checked again under the lock
NoRecheck(force, key) == FALSE

\* the re-check of lines 128-132
GatedUnderLock(force, key) == Gated(force, key)

\* line 163: the contact keeps its recommendation
Fresh(R, existing) ==
  /\ ~R.force
  /\ existing.found
  /\ refreshHours > 0
  /\ (R.now - existing.ret.generated_at) < refreshHours

\* what line 162 read for the contact at pi
Seen(R, existing) ==
  [R EXCEPT !.had = existing.found,
            !.age = IF existing.found
                    THEN R.now - existing.ret.generated_at ELSE 0]

Logged(R, result) ==
  [R EXCEPT !.log = Append(@, [user |-> R.users[R.ui],
                               person |-> R.people[R.pi],
                               had |-> R.had, age |-> R.age,
                               result |-> result])]

NextPerson(R) == [R EXCEPT !.pi = @ + 1, !.had = FALSE, !.age = 0]

\* Lines 162-175: the contact at pi has entries.
Consider(S, n, R, t, existing) ==
  IF Fresh(R, existing)
  THEN [s |-> S, uuid |-> n, done |-> FALSE, wait |-> FALSE,
        run |-> NextPerson(Logged(Seen(R, existing), "fresh"))]
  ELSE [s |-> S, uuid |-> n, done |-> FALSE, wait |-> TRUE,
        run |-> [Seen(R, existing) EXCEPT !.callTime = t]]

\* Lines 155-175 of _refresh_followups: one step of the two loops from the
\* position in R: the run is over (done), it waits for the Generator (wait),
\* or it goes on. The contacts of the list are those of a loaded user, so
\* conversations() and recommendation_for() hydrate nothing.
Step(S, n, R, t) ==
  IF R.ui > Len(R.users)
  THEN [s |-> S, uuid |-> n, run |-> R, done |-> TRUE, wait |-> FALSE]
  ELSE IF R.pi = 0
  THEN With(people_for_user(S, R.users[R.ui], n, NoIo), LAMBDA r :
         [s |-> r.s, uuid |-> r.uuid, done |-> FALSE, wait |-> FALSE,
          run |-> [R EXCEPT !.people = r.ret, !.pi = 1,
                            !.snap = Append(@, [user |-> R.users[R.ui],
                                                people |-> r.ret])]])
  ELSE IF R.pi > Len(R.people)
  THEN [s |-> S, uuid |-> n, done |-> FALSE, wait |-> FALSE,
        run |-> [R EXCEPT !.ui = @ + 1, !.pi = 0, !.people = << >>]]
  ELSE IF conversations(S, R.users[R.ui], R.people[R.pi], n, NoIo).ret = << >>
  THEN [s |-> S, uuid |-> n, done |-> FALSE, wait |-> FALSE,
        run |-> NextPerson(Logged(R, "empty"))]
  ELSE Consider(S, n, R, t,
                recommendation_for(S, R.users[R.ui], R.people[R.pi], n, NoIo))

\* The loops up to the next Generator call or to the end of the run.
RECURSIVE Advance(_, _, _, _)
Advance(S, n, R, t) ==
  With(Step(S, n, R, t), LAMBDA a :
    IF a.done \/ a.wait THEN a ELSE Advance(a.s, a.uuid, a.run, t))

\* faulty variant: the timestamp is written whenever the run ends
LastRunAlways(completed, key) ==
  [k \in DOMAIN lastRun \cup {key} |-> IF k = key THEN mono ELSE lastRun[k]]

\* faulty variant: one timestamp for all keys
LastRunShared(completed, key) ==
  IF completed
  THEN [k \in DOMAIN lastRun \cup {key, Global} |-> mono]
  ELSE lastRun

\* lines 141-142: if completed: _followup_last_run[key] = time.monotonic()
LastRunAfter(completed, key) ==
  IF completed
  THEN [k \in DOMAIN lastRun \cup {key} |-> IF k = key THEN mono ELSE lastRun[k]]
  ELSE lastRun

\* faulty variant: the flag of the key is cleared only when the run returned
FinishKeepsFlag(p, Q, S, n, R, W, completed) ==
  /\ store' = S
  /\ uuid' = n
  /\ run' = [R EXCEPT !.outcome = IF completed THEN "completed" ELSE "raised"]
  /\ req' = [Q EXCEPT ![p].pc = "idle",
                      ![p].outcome = IF completed THEN "completed" ELSE "raised"]
  /\ inProgress' = IF completed THEN inProgress \ {R.key} ELSE inProgress
  /\ lastRun' = LastRunAfter(completed, R.key)
  /\ lockOwner' = 0
  /\ lockWaiters' = W

\* faulty variant: a run that raised leaves the lock with its request
FinishHoldsLock(p, Q, S, n, R, W, completed) ==
  /\ store' = S
  /\ uuid' = n
  /\ run' = [R EXCEPT !.outcome = IF completed THEN "completed" ELSE "raised"]
  /\ req' = [Q EXCEPT ![p].pc = "idle",
                      ![p].outcome = IF completed THEN "completed" ELSE "raised"]
  /\ inProgress' = inProgress \ {R.key}
  /\ lastRun' = LastRunAfter(completed, R.key)
  /\ lockOwner' = IF completed THEN 0 ELSE p
  /\ lockWaiters' = W

\* The end of the run (lines 138-142) and the release of the lock.
Finish(p, Q, S, n, R, W, completed) ==
  /\ store' = S
  /\ uuid' = n
  /\ run' = [R EXCEPT !.outcome = IF completed THEN "completed" ELSE "raised"]
  /\ req' = [Q EXCEPT ![p].pc = "idle",
                      ![p].outcome = IF completed THEN "completed" ELSE "raised"]
  /\ inProgress' = inProgress \ {R.key}
  /\ lastRun' = LastRunAfter(completed, R.key)
  /\ lockOwner' = 0
  /\ lockWaiters' = W

\* The run waits for asyncio.to_thread(generate_followup, ...) at line 168.
Suspend(p, Q, S, n, R, W) ==
  /\ store' = S
  /\ uuid' = n
  /\ run' = R
  /\ req' = [Q EXCEPT ![p].pc = "generating", ![p].outcome = "none"]
  /\ inProgress' = inProgress \cup {R.key}
  /\ lastRun' = lastRun
  /\ lockOwner' = p
  /\ lockWaiters' = W

\* Run the loops on from R until the run ends or waits for the Generator.
Resume(p, Q, S, n, R, W) ==
  Do(Advance(S, n, R, wall), LAMBDA a :
    IF a.done THEN Finish(p, Q, a.s, a.uuid, a.run, W, TRUE)
    ELSE Suspend(p, Q, a.s, a.uuid, a.run, W))

\* line 154
TargetUsers(filter) == IF filter = NoFilter THEN users(store) ELSE <<filter>>

\* Lines 127-137: the body under the lock, from the re-check of the gate to
\* the start of _refresh_followups.
Begin(p, Q, W) ==
  IF GatedUnderLock(Q[p].force, KeyOf(Q[p].filter))
  THEN /\ req' = [Q EXCEPT ![p].pc = "idle", ![p].outcome = "gated_locked"]
       /\ lockOwner' = 0
       /\ lockWaiters' = W
       /\ UNCHANGED <<store, uuid, run, inProgress, lastRun>>
  ELSE Resume(p, Q, store, uuid,
              [NoRun EXCEPT !.p = p, !.key = KeyOf(Q[p].filter),
                            !.force = Q[p].force,
                            !.users = TargetUsers(Q[p].filter),
                            !.now = wall, !.outcome = "running"],
              W)

\* faulty variant: the lock never makes a request wait
LockIgnored == TRUE

\* asyncio.Lock.acquire returns at once when the lock is free and nobody waits
LockFree == lockOwner = 0 /\ lockWaiters = << >>

\* maybe_refresh_followups(force, user_filter), up to its first suspension
Request(p, force, filter) ==
  /\ req[p] = IdleReq
  /\ \A q \in Procs : q < p => req[q] # IdleReq
  /\ UNCHANGED <<wall, mono, apiKey, refreshHours, lockVars>>
  /\ Do([req EXCEPT ![p] = [pc |-> "idle", force |-> force,
                              filter |-> filter, outcome |-> "none"]],
          LAMBDA Q :
            IF ~apiKey
            THEN /\ req' = [Q EXCEPT ![p].outcome = "no_key"]
                 /\ UNCHANGED <<store, uuid, run, inProgress, lastRun,
                                lockOwner, lockWaiters>>
            ELSE IF Gated(force, KeyOf(filter))
            THEN /\ req' = [Q EXCEPT ![p].outcome = "gated"]
                 /\ UNCHANGED <<store, uuid, run, inProgress, lastRun,
                                lockOwner, lockWaiters>>
            ELSE IF LockFree
            THEN Begin(p, Q, lockWaiters)
            ELSE /\ req' = [Q EXCEPT ![p].pc = "waiting"]
                 /\ lockWaiters' = Append(lockWaiters, p)
                 /\ UNCHANGED <<store, uuid, run, inProgress, lastRun,
                                lockOwner>>)

\* The lock was released: its first waiter gets it and goes on.
Wake(p) ==
  /\ lockOwner = 0
  /\ lockWaiters # << >>
  /\ Head(lockWaiters) = p
  /\ UNCHANGED <<wall, mono, apiKey, refreshHours, lockVars>>
  /\ Begin(p, req, Tail(lockWaiters))

\* what generate_followup returns: generated_at is the current_time it got
Generated(R, urgency) ==
  [proposed_response |-> "ping", urgency |-> urgency, rationale |-> "due",
   generated_at |-> R.callTime]

\* Lines 185-194: the Generator returned; an exception of set_recommendation
\* (the file write failed) leaves the loops and the run.
GeneratorReturns(p, urgency, io) ==
  /\ req[p].pc = "generating"
  /\ UNCHANGED <<wall, mono, apiKey, refreshHours, lockVars>>
  /\ Do(set_recommendation(store, run.users[run.ui], run.people[run.pi],
                             Generated(run, urgency), io),
          LAMBDA r :
            IF r.raised
            THEN Finish(p, req, r.s, uuid, Logged(run, "raised"),
                        lockWaiters, FALSE)
            ELSE Resume(p, req, r.s, uuid, NextPerson(Logged(run, "stored")),
                        lockWaiters))

\* faulty variant: the exception of the Generator leaves the run
FailureEscapesAlways == TRUE

\* line 176: except Exception catches what generate_followup raises
FailureEscapes == FALSE

\* Lines 176-183: the Generator raised; log and continue.
GeneratorFails(p) ==
  /\ req[p].pc = "generating"
  /\ UNCHANGED <<wall, mono, apiKey, refreshHours, lockVars>>
  /\ IF FailureEscapes
     THEN Finish(p, req, store, uuid, Logged(run, "failed"), lockWaiters, FALSE)
     ELSE Resume(p, req, store, uuid, NextPerson(Logged(run, "failed")),
                 lockWaiters)

\* An hour passes. A waiter that was handed the lock runs before that.
Tick ==
  /\ wall < MaxTime
  /\ ~(lockOwner = 0 /\ lockWaiters # << >>)
  /\ wall' = wall + 1
  /\ mono' = mono + 1
  /\ UNCHANGED <<store, uuid, schedVars, lockVars>>

\* What an earlier process left in the directories: two entries, and the
\* recommendation of the first.
Seed(u2, c2) ==
  set_recommendation(
    add_entry(add_entry(EmptyStore, "u1", "alice", "yo", "conversation", 1, 0,
                        NoIo).s,
              u2, c2, "yo", "note", 2, 0, NoIo).s,
    "u1", "alice",
    [proposed_response |-> "ping", urgency |-> 5, rationale |-> "due",
     generated_at |-> 0],
    NoIo).s

\* The stores the process can start with: a second contact of the same user,
\* or a contact of a second user.
InitStores ==
  {NewStore(Seed(u2, c2).conv_dir, Seed(u2, c2).rec_dir, FALSE, EmptyFn, 3) :
     <<u2, c2>> \in Pairs \ {<<"u1", "alice">>}}

Urgencies == {5}
\* user_filter: a signed-in user, or None
Filters == {"u1", NoFilter}

SchedInit ==
  /\ \E i \in InitStores : store = i.s /\ uuid = i.uuid
  /\ wall = 0
  /\ mono \in BootTimes
  /\ apiKey \in BOOLEAN
  /\ refreshHours \in RefreshChoices
  /\ lastRun = EmptyFn
  /\ inProgress = {}
  /\ lockOwner = 0
  /\ lockWaiters = << >>
  /\ req = [p \in Procs |-> IdleReq]
  /\ run = NoRun
  /\ storeLock = Free
  /\ calls = [t \in Threads |-> IdleCall]

SchedNext ==
  \/ \E p \in Procs, force \in BOOLEAN, filter \in Filters :
       Request(p, force, filter)
  \/ \E p \in Procs : Wake(p)
  \/ \E p \in Procs, urgency \in Urgencies, io \in {{}, {"rec"}} :
       GeneratorReturns(p, urgency, io)
  \/ \E p \in Procs : GeneratorFails(p)
  \/ Tick
  \/ \E x \in Pairs :
       \* a delete of an id the contact does not hold leaves the state as it
       \* is: the ids the contact holds are tried
       \E i \in 1..Len(BucketOf(store, x[1], x[2])) :
         DeleteEntry(x[1], x[2], BucketOf(store, x[1], x[2])[i].id, NoIo)

SpecSched == SchedInit /\ [][SchedNext]_vars

\* The scheduler under fair scheduling: the event loop runs a coroutine that
\* was handed the lock, and every Generator call returns or raises. The
\* process starts with an API key, over the store with two users.
LiveInit ==
  /\ SchedInit
  /\ apiKey
  /\ mono = 0
  /\ HasUser(store, "u2")

Fairness ==
  \A p \in Procs :
    /\ WF_vars(Wake(p))
    /\ WF_vars(\/ \E urgency \in Urgencies, io \in {{}, {"rec"}} :
                    GeneratorReturns(p, urgency, io)
               \/ GeneratorFails(p))

\* the requests, the Generator and the clock; no other handler runs
LiveNext ==
  \/ \E p \in Procs, force \in BOOLEAN, filter \in Filters :
       Request(p, force, filter)
  \/ \E p \in Procs : Wake(p)
  \/ \E p \in Procs, urgency \in Urgencies, io \in {{}, {"rec"}} :
       GeneratorReturns(p, urgency, io)
  \/ \E p \in Procs : GeneratorFails(p)
  \/ Tick

SpecLive == LiveInit /\ [][LiveNext]_vars /\ Fairness

\* ================================================================ claims
HasRecommendation(S, u, person) ==
  HasUser(S, u) /\ DHas(S.data[u].recommendations, person)

RecOnDisk(S, u, person) ==
  /\ Token(u) \in DOMAIN S.rec_dir
  /\ DHas(S.rec_dir[Token(u)].recommendations, person)

Range(seq) == {seq[i] : i \in 1..Len(seq)}

\* C1: right after a successful add_entry, update_entry or delete_entry on a
\* contact, recommendation_for(user, contact) returns no recommendation,
\* whatever was cached before the call.
C1_MutationInvalidates ==
  \A u \in Users, c \in Contacts :
    /\ \A s \in AddSummaries, k \in Kinds :
         With(add_entry(store, u, c, s, k, uuid, wall, NoIo), LAMBDA r :
           ~r.raised => ~recommendation_for(r.s, u, c, uuid + 1, NoIo).found)
    /\ \A id \in 1..MaxIds, s \in UpdateSummaries, k \in UpdateKinds :
         With(update_entry(store, u, c, id, s, k, NoIo), LAMBDA r :
           (r.ret /\ ~r.raised)
           => ~recommendation_for(r.s, u, c, uuid, NoIo).found)
    /\ \A id \in 1..MaxIds :
         With(delete_entry(store, u, c, id, NoIo), LAMBDA r :
           (r.ret /\ ~r.raised)
           => ~recommendation_for(r.s, u, c, uuid, NoIo).found)

\* A contact with entries whose recommendation is gone from memory while the
\* recommendation file still holds it: an update or delete hit a cached one.
C1_Witness ==
  \E u \in Users, c \in Contacts :
    /\ BucketOf(store, u, c) # << >>
    /\ RecOnDisk(store, u, c)
    /\ ~HasRecommendation(store, u, c)

EntryFacts(S, u, person) ==
  {<<e.id, e.summary, e.entry_type>> : e \in Range(BucketOf(S, u, person))}

Reloaded ==
  NewStore(store.conv_dir, store.rec_dir, store.use_s3, store.bucket, uuid).s

\* C2: after any sequence of add_entry/update_entry/delete_entry, a new store
\* built from the persisted conversation file holds, for every contact, the
\* same entry ids, each with its latest summary and kind.
C2_ReloadReproduces ==
  \A u \in Users, c \in Contacts :
    EntryFacts(Reloaded, u, c) = EntryFacts(store, u, c)

\* C3: when delete_entry removes the only remaining entry of a contact, the
\* contact's bucket and its cached recommendation are removed and the contact
\* is not listed by people_for_user.
C3_LastDeleteRemovesContact ==
  \A u \in Users, c \in Contacts, id \in 1..MaxIds :
    With(delete_entry(store, u, c, id, NoIo), LAMBDA r :
      (Len(BucketOf(store, u, c)) = 1 /\ r.ret /\ ~r.raised)
      => /\ ~DHas(r.s.data[u].conversations, c)
         /\ ~HasRecommendation(r.s, u, c)
         /\ c \notin Range(people_for_user(r.s, u, uuid, NoIo).ret))

\* A contact without a bucket whose recommendation file still names it: its
\* last entry was deleted while a recommendation was cached.
C3_Witness ==
  \E u \in Users, c \in Contacts :
    /\ HasUser(store, u)
    /\ ~DHas(store.data[u].conversations, c)
    /\ RecOnDisk(store, u, c)
    /\ ~HasRecommendation(store, u, c)

\* -- claims about the scheduler, checked under SpecSched
\* the request of p is issued in this step
Issued(p) == req[p] = IdleReq /\ req'[p] # IdleReq

\* the log entries for which the Generator was called
Called(e) == e.result \in {"failed", "stored", "raised"}

\* a run ends in this step
RunEnds == run' # run /\ run'.outcome \in {"completed", "raised"}

\* the contacts the run found in the lists it read, and those it reached
Listed(R) ==
  UNION {{<<R.snap[i].user, c>> : c \in Range(R.snap[i].people)} :
           i \in 1..Len(R.snap)}
Reached(R) == {<<e.user, e.person>> : e \in Range(R.log)}

\* C4 as stated, its second part: with the interval configured and an API
\* key present, a non-forced refresh request for a user regenerates a
\* recommendation aged more than the interval, so the request is not
\* dismissed by the gate.
C4_StaleIsRegenerated ==
  [][\A p \in Procs, u \in Users, c \in Contacts :
       (/\ Issued(p)
        /\ ~req'[p].force
        /\ req'[p].filter = u
        /\ apiKey
        /\ BucketOf(store, u, c) # << >>
        /\ HasRecommendation(store, u, c)
        /\ wall - DGet(store.data[u].recommendations, c).generated_at
             > refreshHours)
       => req'[p].outcome # "gated"]_vars

\* C4, amended: in a refresh run, a contact with entries keeps its
\* recommendation without a Generator call exactly when the run is not forced
\* and the recommendation is younger than the interval at the start of the
\* run; a recommendation at least that old, and any recommendation in a forced
\* run, gets a Generator call.
C4_RunHonoursAge ==
  \A i \in 1..Len(run.log) :
    run.log[i].result # "empty" =>
      ((run.log[i].result = "fresh") <=>
         (~run.force /\ run.log[i].had /\ run.log[i].age < refreshHours))

\* One non-forced run that left a recommendation younger than the interval
\* alone and called the Generator for one at least as old as the interval.
C4_Witness ==
  /\ ~run.force
  /\ \E i \in 1..Len(run.log) :
       /\ run.log[i].result = "fresh"
       /\ run.log[i].age < refreshHours
  /\ \E i \in 1..Len(run.log) :
       /\ Called(run.log[i])
       /\ run.log[i].had
       /\ run.log[i].age >= refreshHours

\* the waiting request of p gets the lock in this step, after a non-forced run
\* for its own key
SecondOfTwo(p) ==
  /\ req[p].pc = "waiting"
  /\ req'[p].pc # "waiting"
  /\ ~req[p].force
  /\ req[p].filter \in Users
  /\ ~run.force
  /\ run.key = KeyOf(req[p].filter)

C6_FailureDoesNotBlock ==
  [][/\ (/\ RunEnds
         /\ \E i \in 1..Len(run'.log) : run'.log[i].result = "failed"
         /\ \A i \in 1..Len(run'.log) : run'.log[i].result # "raised")
        => /\ Len(run'.snap) = Len(run'.users)
           /\ Listed(run') \subseteq Reached(run')
     /\ (/\ Len(run'.log) = Len(run.log) + 1
         /\ run'.log[Len(run'.log)].result = "stored")
        => /\ HasRecommendation(store', run.users[run.ui], run.people[run.pi])
           /\ DGet(store'.data[run.users[run.ui]].recommendations,
                   run.people[run.pi]).generated_at = run.callTime]_vars

\* A finished run in which the Generator failed for one contact and a later
\* contact got its result stored.
C6_Witness ==
  /\ run.outcome = "completed"
  /\ \E i, j \in 1..Len(run.log) :
       /\ i < j
       /\ run.log[i].result = "failed"
       /\ run.log[j].result = "stored"

\* C7: at most one refresh run is executing at any time, whatever the keys and
\* the force flags of the requests; the run that waits for the Generator holds
\* the lock.
C7_OneRunAtATime ==
  /\ Cardinality({p \in Procs : req[p].pc = "generating"}) <= 1
  /\ \A p \in Procs : req[p].pc = "generating" =>
       lockOwner = p /\ run.p = p /\ run.outcome = "running"

\* A run waits for the Generator while a forced request for another key waits
\* for the lock.
C7_Witness ==
  \E p, q \in Procs :
    /\ req[p].pc = "generating"
    /\ req[q].pc = "waiting"
    /\ req[q].force
    /\ KeyOf(req[q].filter) # run.key

\* the contacts of the users a request targets that have an entry
HasWork(filter) ==
  \E u \in Users, c \in Contacts :
    /\ filter \in {u, NoFilter}
    /\ BucketOf(store, u, c) # << >>

\* C8 as stated: a forced refresh request, whenever it is issued, invokes the
\* Generator for the contacts of its target that have an entry, so it does not
\* return without a run.
C8_ForcedAlwaysCalls ==
  [][\A p \in Procs :
       (Issued(p) /\ req'[p].force /\ HasWork(req'[p].filter))
       => req'[p].pc \in {"generating", "waiting"}]_vars

\* C8, amended: with an API key configured a forced request is never
\* dismissed by the gate or by its re-check; its run keeps no recommendation
\* for being fresh; and when the run returns without an exception it has
\* reached every contact of the lists it read exactly once and called the
\* Generator for each of them that had an entry when it was reached.
C8_ForcedRunCallsAll ==
  /\ \A p \in Procs :
       (req[p].force /\ apiKey)
       => req[p].outcome \notin {"no_key", "gated", "gated_locked"}
  /\ run.force =>
       /\ \A i \in 1..Len(run.log) :
            run.log[i].result = "empty" \/ Called(run.log[i])
       /\ run.outcome = "completed" =>
            /\ Len(run.snap) = Len(run.users)
            /\ \A x \in Listed(run) :
                 Cardinality({i \in 1..Len(run.log) :
                                <<run.log[i].user, run.log[i].person>> = x}) = 1

\* A forced run has returned after it replaced a recommendation that was
\* younger than the interval.
C8_Witness ==
  /\ run.force
  /\ run.outcome = "completed"
  /\ \E i \in 1..Len(run.log) :
       /\ run.log[i].result = "stored"
       /\ run.log[i].had
       /\ run.log[i].age < refreshHours

\* _followup_last_run with the key set to the clock
Stamped(key) ==
  [k \in DOMAIN lastRun \cup {key} |-> IF k = key THEN mono ELSE lastRun[k]]

\* C9: the last-completed-run timestamp of a key is written at the end of a
\* run exactly when the run returned without an escaping exception, failed
\* Generator calls or not; a run ended by an exception, and every other step,
\* leaves the timestamps as they were.
C9_StampIffCompleted ==
  [][/\ (RunEnds /\ run'.outcome = "completed") => lastRun' = Stamped(run'.key)
     /\ (RunEnds /\ run'.outcome = "raised") => lastRun' = lastRun
     /\ ~RunEnds => lastRun' = lastRun]_vars

\* A run in which a Generator call failed has returned and its key is
\* stamped.
C9_Witness ==
  /\ run.outcome = "completed"
  /\ \E i \in 1..Len(run.log) : run.log[i].result = "failed"
  /\ run.key \in DOMAIN lastRun
  /\ lastRun[run.key] = mono

\* -- back to the store, under SpecStore
Resolves(S, u, person, id) ==
  /\ u \in DOMAIN S.data
  /\ \E i \in 1..Len(S.data[u].conversations) :
       /\ S.data[u].conversations[i].k = person
       /\ \E j \in 1..Len(S.data[u].conversations[i].v) :
            S.data[u].conversations[i].v[j].id = id

IoChoices == {{}, {"conv"}, {"rec"}}

\* C10: get_entry, update_entry and delete_entry called with a triple that
\* does not resolve return not-found without raising and leave the entries,
\* the recommendations and the files as they were.
C10_NotFoundIsInert ==
  \A u \in Users, c \in Contacts, id \in 1..MaxIds :
    ~Resolves(store, u, c, id) =>
      /\ ~get_entry(store, u, c, id).found
      /\ \A s \in UpdateSummaries, k \in UpdateKinds, io \in IoChoices :
           LET r == update_entry(store, u, c, id, s, k, io)
           IN ~r.ret /\ ~r.raised /\ r.s = store
      /\ \A io \in IoChoices :
           LET r == delete_entry(store, u, c, id, io)
           IN ~r.ret /\ ~r.raised /\ r.s = store

\* A contact with an entry and a cached recommendation, asked for another id.
C10_Witness ==
  \E u \in Users, c \in Contacts, id \in 1..MaxIds :
    /\ BucketOf(store, u, c) # << >>
    /\ HasRecommendation(store, u, c)
    /\ ~Resolves(store, u, c, id)

\* C11: add_entry raises exactly when the kind is not conversation or note,
\* and every entry the store holds has kind conversation or note.
C11_KindsAreValidated ==
  /\ \A x \in Pairs, s \in AddSummaries, k \in Kinds :
       add_entry(store, x[1], x[2], s, k, uuid, wall, NoIo).raised
         <=> k \notin ValidKinds
  /\ \A x \in Pairs :
       \A e \in Range(BucketOf(store, x[1], x[2])) : e.entry_type \in ValidKinds

\* -- the mirror, under SpecMirror
Wrote(S, i) == S.trace[i].op = "write"
PutAfter(S, i) ==
  \E j \in (i + 1)..Len(S.trace) :
    /\ S.trace[j].op = "put"
    /\ S.trace[j].file = S.trace[i].file
    /\ S.trace[j].key = S.trace[i].key

\* C12: with the mirror enabled, every file a call wrote (a conversation file
\* or a recommendation file) is followed, in that call, by an upload attempt
\* of the same file.
C12_PersistIsMirrored ==
  (store.ready /\ store.use_s3) =>
    \A i \in 1..Len(store.trace) : Wrote(store, i) => PutAfter(store, i)

\* what a mutation leaves locally: memory, paths and the two directories
Local(S) ==
  <<S.data, S.user_files, S.recommendation_files, S.conv_dir, S.rec_dir>>

SameOutcome(r, q) ==
  /\ r.raised = q.raised
  /\ r.ret = q.ret
  /\ Local(r.s) = Local(q.s)

\* C13: a failing mirror upload changes nothing of a mutation but the mirror:
\* add_entry, update_entry and delete_entry raise or return, and leave the
\* memory and the local files, as they do when the upload succeeds.
C13_UploadFailureIsInert ==
  (store.ready /\ store.use_s3) =>
    \A x \in MirrorPairs :
      /\ \A s \in AddSummaries, k \in ValidKinds :
           SameOutcome(
             add_entry(store, x[1], x[2], s, k, uuid, wall, {"s3put"}),
             add_entry(store, x[1], x[2], s, k, uuid, wall, NoIo))
      /\ \A id \in MirrorIds, s \in UpdateSummaries,
            k \in UpdateKinds :
           SameOutcome(
             update_entry(store, x[1], x[2], id, s, k, {"s3put"}),
             update_entry(store, x[1], x[2], id, s, k, NoIo))
      /\ \A id \in MirrorIds :
           SameOutcome(delete_entry(store, x[1], x[2], id, {"s3put"}),
                       delete_entry(store, x[1], x[2], id, NoIo))

\* A call whose upload was attempted and failed: the trace ends with the
\* attempt, and the mirror does not hold the file the call wrote.
C13_Witness ==
  /\ store.ready /\ store.use_s3
  /\ \E i \in 1..Len(store.trace) :
       /\ store.trace[i].op = "put"
       /\ \/ store.trace[i].key \notin DOMAIN store.bucket
          \/ store.bucket[store.trace[i].key]
               # store.conv_dir[store.trace[i].key]

Download(ev) == ev.op \in {"head", "get"}

\* C14: a call asks the mirror for a user's file only if, when the call
\* started, the store had no record of that user in memory and the user's
\* conversation file was not in the local directory.
C14_DownloadOnlyOnMiss ==
  [][\A i \in 1..Len(store'.trace) :
       Download(store'.trace[i]) =>
         \E u \in Users :
           /\ store'.trace[i].key = Token(u)
           /\ ~HasUser(store, u)
           /\ Token(u) \notin DOMAIN store.conv_dir]_vars

\* A download that left a local file and no record: the mirror was asked for
\* u1's file, and the file on disk is cut short, so u1 is not in memory.
C14_Witness ==
  /\ \E i \in 1..Len(store.trace) : Download(store.trace[i])
  /\ ~HasUser(store, "u1")
  /\ Token("u1") \in DOMAIN store.conv_dir

\* a user whose conversation file is in the mirror and nowhere else
KnownOnlyRemotely(S, u) ==
  /\ S.ready
  /\ ~HasUser(S, u)
  /\ Token(u) \notin DOMAIN S.conv_dir
  /\ Token(u) \notin DOMAIN S.rec_dir
  /\ Token(u) \in DOMAIN S.bucket
  /\ S.bucket[Token(u)].user = u

RemoteContacts(S, u) ==
  {S.bucket[Token(u)].conversations[i].k :
     i \in 1..Len(S.bucket[Token(u)].conversations)}

RemoteIds(S, u, person) ==
  {e.id : e \in Range(DGet(S.bucket[Token(u)].conversations, person))}

\* C15: the first access to a user known only to the mirror, through any read
\* accessor, yields the user's remote conversations when the mirror is
\* enabled, and an empty result without an exception when it is disabled.
C15_FirstAccessHydrates ==
  \A u \in Users :
    KnownOnlyRemotely(store, u) =>
      IF store.use_s3
      THEN /\ Range(people_for_user(store, u, uuid, NoIo).ret)
                = RemoteContacts(store, u)
           /\ \A c \in RemoteContacts(store, u) :
                /\ {e.id : e \in Range(conversations(store, u, c, uuid, NoIo).ret)}
                     = RemoteIds(store, u, c)
                /\ \A id \in RemoteIds(store, u, c) :
                     get_entry(store, u, c, id).found
      ELSE /\ people_for_user(store, u, uuid, NoIo).ret = << >>
           /\ recommendations_for_user(store, u) = << >>
           /\ \A c \in Contacts :
                /\ conversations(store, u, c, uuid, NoIo).ret = << >>
                /\ ~recommendation_for(store, u, c, uuid, NoIo).found
                /\ \A id \in MirrorIds :
                     ~get_entry(store, u, c, id).found


\* C17: download_if_exists raises nothing; it returns true only when the
\* object is in the mirror, nothing went wrong and the destination holds the
\* object's content, and false for a missing object and for every failure.
C17_DownloadIsConservative ==
  (store.ready /\ store.use_s3) =>
    \A u \in Users, io \in DownloadFaults :
      With(download_if_exists(store, Token(u), Token(u), io), LAMBDA r :
        /\ ~r.raised
        /\ r.ret => /\ Token(u) \in DOMAIN store.bucket
                    /\ io = {}
                    /\ Token(u) \in DOMAIN r.s.conv_dir
                    /\ r.s.conv_dir[Token(u)] = store.bucket[Token(u)]
        /\ (Token(u) \notin DOMAIN store.bucket \/ io # {}) => ~r.ret)


\* -- persists, under SpecPersist
Absent == [user |-> "<absent>", conversations |-> << >>, recommendations |-> << >>]
Target(dir, path) == IF path \in DOMAIN dir THEN dir[path] ELSE Absent

\* In every state of the persist the target holds its prior content or the
\* new content, the other files are as before; with a fault the target holds
\* its prior content throughout.
Atomic(dir, path, content, stages, fault) ==
  \A k \in 1..Len(stages) :
    /\ Target(stages[k], path) \in {Target(dir, path), content}
    /\ fault # "none" => Target(stages[k], path) = Target(dir, path)
    /\ \A p \in (JsonFiles(dir) \cup JsonFiles(stages[k])) \ {path} :
         Target(stages[k], p) = Target(dir, p)

PersistFaults == {"none", "write", "replace"}

\* C18: every persist is atomic. Whatever conversation file add_entry or
\* recommendation file set_recommendation is about to write, and whether the
\* write of the temporary sibling fails, the rename fails or nothing fails,
\* the target holds in every state of the persist the complete prior content
\* or the complete new content, and the prior content when the persist
\* failed; and no file a process was killed over holds a text cut short.
C18_PersistIsAtomic ==
  /\ \A p \in JsonFiles(store.conv_dir) : store.conv_dir[p] # Partial
  /\ \A p \in JsonFiles(store.rec_dir) : store.rec_dir[p] # Partial
  /\ store.ready =>
       \A x \in PersistPairs, fault \in PersistFaults :
         /\ \A s \in AddSummaries, k \in ValidKinds :
              With(path_for_user(
                     Appended(store, x[1], x[2], s, k, uuid, wall), x[1]),
                   LAMBDA M :
                     Atomic(M.conv_dir, M.user_files[x[1]], UserDoc(M, x[1]),
                            AtomicWrite(M.conv_dir, M.user_files[x[1]],
                                        UserDoc(M, x[1]), fault),
                            fault))
         /\ \A rec \in StoreRecs :
              With(path_for_recommendations(
                     Recommended(store, x[1], x[2], rec), x[1]),
                   LAMBDA M :
                     Atomic(M.rec_dir, M.recommendation_files[x[1]],
                            RecDoc(M, x[1]),
                            AtomicWrite(M.rec_dir, M.recommendation_files[x[1]],
                                        RecDoc(M, x[1]), fault),
                            fault))

\* A process was killed between the write of the temporary sibling and the
\* rename: the complete new text is in the sibling, the conversation file
\* holds the prior content.
C18_Witness ==
  /\ ~store.ready
  /\ \E u \in Users :
       /\ Token(u) \in DOMAIN store.conv_dir
       /\ TmpOf(Token(u)) \in DOMAIN store.conv_dir
       /\ store.conv_dir[TmpOf(Token(u))] # Partial
       /\ store.conv_dir[TmpOf(Token(u))] # store.conv_dir[Token(u)]

\* -- loading persisted files, under SpecLoad
\* the conversation files of a state, local or in the mirror
Docs(S) ==
  {S.conv_dir[p] : p \in DOMAIN S.conv_dir}
    \cup {S.bucket[k] : k \in DOMAIN S.bucket}

\* An entry as a parse yields it, the id replaced by 0 when it was generated
\* (generated ids are random: two parses never agree on them).
Parsed(bucket) ==
  [i \in 1..Len(bucket) |->
     [bucket[i] EXCEPT !.id = IF @ \in RawIds THEN @ ELSE 0]]

\* C16: for every conversation file, the parse of the read-through
\* (_ensure_loaded) yields, contact by contact, the entries the parse at
\* startup (_load_existing) yields: the same entries are skipped, an id is
\* generated for the same entries, the kind falls back to conversation for
\* the same entries.
C16_ParsesAgree ==
  \A doc \in Docs(store) :
    \A i \in 1..Len(doc.conversations) :
      Parsed(HydrateEntries(doc.conversations[i].v, 1, << >>, uuid).bucket)
        = Parsed(LoadEntries(doc.conversations[i].v, 1, << >>, uuid,
                             FALSE).bucket)

Readable(e) == ~Unreadable(e)

\* a new process over the directories and the mirror of the state
Started(S, n) == NewStore(S.conv_dir, S.rec_dir, S.use_s3, S.bucket, n)

\* the file's entries have an id and a valid kind wherever they are readable
Repaired(doc) ==
  \A i \in 1..Len(doc.conversations) :
    \A e \in Range(doc.conversations[i].v) :
      Readable(e) => e.id # 0 /\ e.entry_type \in ValidKinds

\* C19: a start over a conversation file returns a store that holds, for each
\* contact, one entry per readable entry of the file, each with an id and a
\* valid kind; the file is left with ids and valid kinds on its readable
\* entries, and a second start generates no id and yields the same entries.
C19_StartupRepairs ==
  \A p \in DOMAIN store.conv_dir :
    store.conv_dir[p].user # "" =>
      With(Started(store, uuid), LAMBDA r :
        /\ ~r.raised
        /\ \A i \in 1..Len(store.conv_dir[p].conversations) :
             With(BucketOf(r.s, store.conv_dir[p].user,
                           store.conv_dir[p].conversations[i].k),
                  LAMBDA bucket :
                    /\ Len(bucket) =
                         Len(SelectSeq(store.conv_dir[p].conversations[i].v,
                                       Readable))
                    /\ \A e \in Range(bucket) :
                         e.id # 0 /\ e.entry_type \in ValidKinds)
        /\ Repaired(r.s.conv_dir[p])
        /\ With(Started(r.s, r.uuid), LAMBDA q :
             ~q.raised /\ q.uuid = r.uuid /\ q.s.data = r.s.data))

Facts(e) == <<e.summary, e.timestamp>>
RawFacts(e) == <<e.summary, FromIso(e.timestamp)>>
Map(seq, F(_)) == [i \in 1..Len(seq) |-> F(seq[i])]

HasMalformed(doc) ==
  \E i \in 1..Len(doc.conversations) :
    \E e \in Range(doc.conversations[i].v) : Unreadable(e)

\* C20: a start over a conversation file with malformed entries returns a
\* store that holds, for every contact of the file, the readable entries of
\* the file in the file's order.
C20_OnlyMalformedSkipped ==
  \A p \in DOMAIN store.conv_dir :
    (store.conv_dir[p].user # "" /\ HasMalformed(store.conv_dir[p])) =>
      With(Started(store, uuid), LAMBDA r :
        /\ ~r.raised
        /\ \A i \in 1..Len(store.conv_dir[p].conversations) :
             Map(BucketOf(r.s, store.conv_dir[p].user,
                          store.conv_dir[p].conversations[i].k), Facts)
               = Map(SelectSeq(store.conv_dir[p].conversations[i].v, Readable),
                     RawFacts))
\* the recommendations embedded in a conversation file that parse
Embedded(doc) ==
  {i \in 1..Len(doc.recommendations) :
     parse_recommendation(doc.recommendations[i].v).ok}

\* C21: a start over a conversation file that embeds well-formed
\* recommendations returns a store that holds each of them in memory and in
\* the user's recommendation file, and leaves the conversation file without
\* embedded recommendations.
C21_LegacyRecommendationsMigrate ==
  \A p \in DOMAIN store.conv_dir :
    (store.conv_dir[p].user # "" /\ Embedded(store.conv_dir[p]) # {}) =>
      With(Started(store, uuid), LAMBDA r :
        /\ ~r.raised
        /\ r.s.conv_dir[p].recommendations = << >>
        /\ \A i \in Embedded(store.conv_dir[p]) :
             With(store.conv_dir[p].recommendations[i], LAMBDA raw :
               /\ HasRecommendation(r.s, store.conv_dir[p].user, raw.k)
               /\ DGet(r.s.data[store.conv_dir[p].user].recommendations,
                       raw.k) = parse_recommendation(raw.v).entry
               /\ RecOnDisk(r.s, store.conv_dir[p].user, raw.k)))

\* -- the order of a contact's entries, under SpecOrder
Ids(entries) == [i \in 1..Len(entries) |-> entries[i].id]

\* the place of an id in the order of addition: the entries of the file were
\* added before the process started, in the file's order; uuid counts up
AddedAt(id) == IF id \in {7, 8, 9} THEN id - 10 ELSE id

Listing(S) == Ids(conversations(S, "u1", "alice", uuid, NoIo).ret)

\* C22: conversations(user, contact) returns the entries in the order they
\* were added: add_entry appends, update_entry leaves every entry in its
\* place, and delete_entry removes one entry and leaves the others in their
\* order.
C22_InsertionOrderKept ==
  /\ \A i, j \in 1..Len(Listing(store)) :
       i < j => AddedAt(Listing(store)[i]) < AddedAt(Listing(store)[j])
  /\ store.ready =>
       /\ \A s \in AddSummaries, k \in ValidKinds :
            Listing(add_entry(store, "u1", "alice", s, k, uuid, wall, NoIo).s)
              = Append(Listing(store), uuid)
       /\ \A id \in OrderIds, s \in UpdateSummaries, k \in UpdateKinds :
            Listing(update_entry(store, "u1", "alice", id, s, k, NoIo).s)
              = Listing(store)
       /\ \A id \in OrderIds :
            Listing(delete_entry(store, "u1", "alice", id, NoIo).s)
              = SelectSeq(Listing(store), LAMBDA x : x # id)

\* The second of three entries was deleted and the first updated; later the
\* third was deleted and an entry added, which follows the updated one.
C22_Witness ==
  /\ Listing(store) = <<7, 2>>
  /\ BucketOf(store, "u1", "alice")[1].summary = "hi"
  /\ BucketOf(store, "u1", "alice")[1].entry_type = "note"

\* -- invariants of the store over persisted files, under SpecLoad
\* C23: people_for_user(user) returns the contacts that have at least one
\* entry, sorted alphabetically, and no contact without entries, after a
\* start, a read-through and any mutation.
C23_PeopleHaveEntries ==
  store.ready =>
    \A u \in Users :
      With(people_for_user(store, u, uuid, NoIo), LAMBDA r :
        r.ret = SortedSeq({c \in Contacts : BucketOf(r.s, u, c) # << >>}))

\* C24: the ids of the entries of one contact are pairwise distinct, for
\* entries added by add_entry and for entries loaded at a start or read
\* through from a persisted or downloaded file.
C24_IdsAreDistinct ==
  store.ready =>
    \A u \in Users, c \in Contacts :
      With(conversations(store, u, c, uuid, NoIo).ret, LAMBDA entries :
        \A i, j \in 1..Len(entries) :
          entries[i].id = entries[j].id => i = j)

\* C25: every cached recommendation has an urgency from 1 to 10, whether
\* set_recommendation stored it or a start or a read-through loaded it from a
\* recommendation file.
C25_UrgencyInRange ==
  store.ready =>
    \A u \in Users, c \in Contacts :
      With(recommendation_for(store, u, c, uuid, NoIo), LAMBDA r :
        r.found => r.ret.urgency \in 1..10)

\* no two keys of the mapping have the same path
Injective(files) ==
  \A a, b \in DOMAIN files : files[a] = files[b] => a = b

\* the users that have a path in both mappings have the same path in both
Kept(before, after) ==
  \A a \in DOMAIN before \cap DOMAIN after : after[a] = before[a]

\* C26: two users never share a conversation file path nor a recommendation
\* file path, also when the paths were assigned from the files found at the
\* start, and no call of the store changes a path that is assigned.
C26_PathsAreStable ==
  store.ready =>
    /\ Injective(store.user_files)
    /\ Injective(store.recommendation_files)
    /\ \A u \in Users, c \in Contacts :
         /\ \A s \in AddSummaries :
              With(add_entry(store, u, c, s, "note", uuid, wall, NoIo).s,
                   LAMBDA S :
                     /\ Kept(store.user_files, S.user_files)
                     /\ Kept(store.recommendation_files, S.recommendation_files))
         /\ \A rec \in StoreRecs :
              With(set_recommendation(store, u, c, rec, NoIo).s, LAMBDA S :
                /\ Kept(store.user_files, S.user_files)
                /\ Kept(store.recommendation_files, S.recommendation_files))
         /\ With(people_for_user(store, u, uuid, NoIo).s, LAMBDA S :
              /\ Kept(store.user_files, S.user_files)
              /\ Kept(store.recommendation_files, S.recommendation_files))

\* -- the in-progress flag, under SpecSched
\* C27: the in-progress flag of a key is set exactly while a run for that key
\* holds the serialization lock: it is set when the re-check of the gate has
\* passed and cleared when the run ends, returned or raised; a request that
\* was gated away sets no flag; at most one key is flagged.
C27_FlagWhileRunning ==
  /\ inProgress = IF lockOwner \in Procs THEN {run.key} ELSE {}
  /\ lockOwner \in Procs =>
       /\ run.p = lockOwner
       /\ run.outcome = "running"
       /\ run.key = KeyOf(req[lockOwner].filter)
       /\ req[lockOwner].outcome = "none"
  /\ \A p \in Procs :
       req[p].outcome \in {"no_key", "gated", "gated_locked", "completed",
                           "raised"} => lockOwner # p
  /\ Cardinality(inProgress) <= 1

\* The run of one request raised and its flag is cleared; the run of another
\* request, for another key, is flagged while it waits for the Generator.
C27_Witness ==
  \E p, q \in Procs :
    /\ req[q].outcome = "raised"
    /\ req[p].pc = "generating"
    /\ lockOwner = p
    /\ KeyOf(req[q].filter) # KeyOf(req[p].filter)
    /\ inProgress = {KeyOf(req[p].filter)}

\* -- the store lock, under SpecLock
\* the threads inside the body of a store method
Inside == {t \in Threads : calls[t].pc \in {"held", "written", "renamed"}}

\* the document the thread's persist writes, and where
Writes(t) ==
  IF calls[t].op = "add"
  THEN [dir |-> store.conv_dir, path |-> store.user_files[calls[t].u],
        doc |-> UserDoc(store, calls[t].u)]
  ELSE [dir |-> store.rec_dir, path |-> store.recommendation_files[calls[t].u],
        doc |-> RecDoc(store, calls[t].u)]

\* C28: a mutating store method holds the store lock from the change of the
\* memory to the end of its persist, so the persists of two calls, for one
\* user or for two, never interleave: at most one thread is inside a method,
\* the temporary file it wrote stays as it wrote it until it renames it, and
\* after the rename the target holds the memory's content.
C28_PersistUnderLock ==
  /\ \A t \in Inside : storeLock = t
  /\ Cardinality(Inside) <= 1
  /\ \A t \in Threads :
       /\ calls[t].pc = "written" =>
            /\ TmpOf(Writes(t).path) \in DOMAIN Writes(t).dir
            /\ Writes(t).dir[TmpOf(Writes(t).path)] = Writes(t).doc
       /\ calls[t].pc = "renamed" =>
            /\ TmpOf(Writes(t).path) \notin DOMAIN Writes(t).dir
            /\ Writes(t).dir[Writes(t).path] = Writes(t).doc
  /\ Inside = {} => \A p \in DOMAIN store.conv_dir \cup DOMAIN store.rec_dir :
                      ~IsTmp(p)

\* A thread has written its temporary file and not yet renamed it, while a
\* call for the same user and a call for another user wait for the lock.
C28_Witness ==
  \E t, v, w \in Threads :
    /\ calls[t].pc = "written"
    /\ calls[v].pc = "waiting" /\ calls[v].u = calls[t].u
    /\ calls[w].pc = "waiting" /\ calls[w].u # calls[t].u

\* C29: the store lock is not held by the refresh while its Generator call is
\* in flight: it holds the lock inside the read of the history and inside
\* set_recommendation only, so a call of another thread that waits for the
\* lock then waits for a thread that is inside a store method and not for
\* the Generator.
C29_NoLockAcrossGenerator ==
  /\ \A t \in Threads : calls[t].pc = "generating" => storeLock # t
  /\ storeLock = Loop =>
       /\ calls[Loop].op \in {"read", "set"}
       /\ Loop \in Inside
  /\ calls[Loop].pc = "generating" =>
       \A t \in Handlers :
         calls[t].pc = "waiting" => storeLock = Free \/ storeLock \in Inside

\* The Generator call of the refresh is in flight while another thread is
\* inside add_entry, between the rename and the return.
C29_Witness ==
  /\ calls[Loop].pc = "generating"
  /\ \E t \in Handlers : calls[t].pc = "renamed" /\ storeLock = t

\* -- requests that arrive during a run, under SpecLive
\* the request of p has not returned
Pending(p) == req[p].pc \in {"waiting", "generating"}

\* the request of p has returned, with a result and without the lock
Returned(p) ==
  /\ req[p].pc = "idle"
  /\ req[p].outcome \in {"no_key", "gated", "gated_locked", "completed",
                          "raised"}
  /\ lockOwner # p
  /\ \A i \in 1..Len(lockWaiters) : lockWaiters[i] # p

\* C30: a refresh request that arrives while a run is executing starts no run
\* before that run has finished; and when every Generator call returns or
\* raises, every request returns, after its run or gated away, without the
\* serialization lock, also after a run that raised.
C30_RequestsReturn ==
  /\ [][\A p \in Procs :
          (Issued(p) /\ lockOwner # 0)
          => /\ run' = run
             /\ lockOwner' = lockOwner
             /\ req'[p].pc = "waiting" \/ req'[p].outcome \in {"no_key", "gated"}]_vars
  /\ [][\A p \in Procs :
          (req[p].pc = "waiting" /\ req'[p].pc # "waiting")
          => lockOwner = 0 /\ run.outcome \in {"completed", "raised"}]_vars
  /\ \A p \in Procs : Pending(p) ~> Returned(p)

\* A request waits for the lock while the run of another, in which the
\* Generator has failed once, waits for the Generator again.
C30_Witness ==
  \E p, q \in Procs :
    /\ req[q].pc = "generating"
    /\ req[p].pc = "waiting"
    /\ \E i \in 1..Len(run.log) : run.log[i].result = "failed"
(***************************************************************************)
(* C31: a restart reproduces the cached recommendations.  In every state   *)
(* reached by add_entry, update_entry, delete_entry and set_recommendation *)
(* whose persisted files start a store without raising, the store built    *)
(* from the files caches, for every user and contact, exactly the          *)
(* recommendation held in memory: a recommendation that update_entry or    *)
(* delete_entry invalidated is not cached again by the restart.            *)
(***************************************************************************)
C31_RestartKeepsRecommendations ==
  store.ready =>
    With(Started(store, uuid), LAMBDA r :
      ~r.raised =>
        \A x \in Pairs :
          recommendation_for(r.s, x[1], x[2], r.uuid, NoIo).ret
            = recommendation_for(store, x[1], x[2], uuid, NoIo).ret)

(***************************************************************************)
(* C32: a cached recommendation was generated from the contact's current   *)
(* entries.  While set_recommendation of the refresh stores the            *)
(* Generator's result for a contact (the result is in memory, the lock is  *)
(* still held), the history the refresh read for the Generator call is     *)
(* the contact's entry sequence in the store: no add_entry went in between.*)
(***************************************************************************)
C32_CachedFromCurrentEntries ==
  (calls[Loop].op = "set" /\ calls[Loop].pc \in {"written", "renamed"}) =>
    /\ HasRecommendation(store, calls[Loop].u, calls[Loop].c)
    /\ calls[Loop].history = BucketOf(store, calls[Loop].u, calls[Loop].c)

(***************************************************************************)
(* C33: a cached recommendation belongs to a contact with entries.  In     *)
(* every state reached by refresh runs interleaved with store mutations,   *)
(* every contact with a cached recommendation has at least one entry (so   *)
(* no user record exists only because of a recommendation write).          *)
(***************************************************************************)
C33_RecommendedHaveEntries ==
  \A x \in Pairs :
    HasRecommendation(store, x[1], x[2]) => BucketOf(store, x[1], x[2]) # << >>

(***************************************************************************)
(* C34: a mutation for a user known only to the mirror does not reduce the *)
(* mirrored data.  With the mirror enabled, for a user without a record in *)
(* memory and without local files whose conversation file is in the        *)
(* mirror, after add_entry or set_recommendation (uploads succeeding) the  *)
(* mirror's object for the user still holds every entry it held before.    *)
(***************************************************************************)
C34_MirrorKeepsEntries ==
  \A x \in MirrorPairs :
    (KnownOnlyRemotely(store, x[1]) /\ store.use_s3) =>
      /\ \A s \in AddSummaries, k \in ValidKinds :
           With(add_entry(Call(store), x[1], x[2], s, k, uuid, wall, NoIo).s,
                LAMBDA S :
                  \A c \in RemoteContacts(store, x[1]) :
                    /\ c \in RemoteContacts(S, x[1])
                    /\ RemoteIds(store, x[1], c) \subseteq RemoteIds(S, x[1], c))
      /\ \A rec \in StoreRecs :
           With(set_recommendation(Call(store), x[1], x[2], rec, NoIo).s,
                LAMBDA S :
                  \A c \in RemoteContacts(store, x[1]) :
                    /\ c \in RemoteContacts(S, x[1])
                    /\ RemoteIds(store, x[1], c) \subseteq RemoteIds(S, x[1], c))

(***************************************************************************)
(* C35: a key that never completed a run is not gated.  A non-forced       *)
(* request made with an API key configured, for a key without a            *)
(* last-completed-run timestamp, is not dismissed by the interval gate,    *)
(* whatever the monotonic clock reads at the time of the request.          *)
(***************************************************************************)
C35_NeverRunIsNotGated ==
  [][\A p \in Procs :
       ( /\ Issued(p)
         /\ apiKey
         /\ ~req'[p].force
         /\ KeyOf(req'[p].filter) \notin DOMAIN lastRun )
       => req'[p].outcome # "gated"]_vars

\* the readable entries of a contact in a conversation file
FileFacts(doc, person) ==
  IF DHas(doc.conversations, person)
  THEN Map(SelectSeq(DGet(doc.conversations, person), Readable), RawFacts)
  ELSE << >>

(***************************************************************************)
(* C36: the repair of one contact keeps the other contacts in the file.    *)
(* After a start over a conversation file with several contacts, the file  *)
(* holds, for every contact, the readable entries it held before, and a    *)
(* second start loads them all.                                            *)
(***************************************************************************)
C36_RepairKeepsContacts ==
  \A p \in DOMAIN store.conv_dir :
    (store.conv_dir[p].user # "" /\ Len(store.conv_dir[p].conversations) > 1) =>
      With(Started(store, uuid), LAMBDA r :
        \A i \in 1..Len(store.conv_dir[p].conversations) :
          With(store.conv_dir[p].conversations[i].k, LAMBDA person :
            /\ FileFacts(r.s.conv_dir[p], person)
                 = FileFacts(store.conv_dir[p], person)
            /\ Map(BucketOf(Started(r.s, r.uuid).s, store.conv_dir[p].user,
                            person), Facts)
                 = FileFacts(store.conv_dir[p], person)))

\* the recommendations of a recommendation file that parse
Dedicated(rdoc) ==
  {i \in 1..Len(rdoc.recommendations) :
     parse_recommendation(rdoc.recommendations[i].v).ok}

(***************************************************************************)
(* C37: a start keeps the recommendations of the dedicated file next to    *)
(* the migrated ones.  After a start over a recommendation file and a      *)
(* conversation file of the same user that embeds well-formed              *)
(* recommendations for other contacts, every well-formed recommendation of *)
(* the dedicated file and every embedded one is in memory and in the       *)
(* dedicated file.                                                         *)
(***************************************************************************)
C37_DedicatedAndLegacyKept ==
  \A p \in DOMAIN store.conv_dir \cap DOMAIN store.rec_dir :
    ( /\ store.conv_dir[p].user # ""
      /\ store.rec_dir[p].user = store.conv_dir[p].user
      /\ \E i \in Embedded(store.conv_dir[p]) :
           ~DHas(store.rec_dir[p].recommendations,
                 store.conv_dir[p].recommendations[i].k) ) =>
      With(Started(store, uuid).s, LAMBDA S :
        /\ \A i \in Dedicated(store.rec_dir[p]) :
             /\ HasRecommendation(S, store.rec_dir[p].user,
                                  store.rec_dir[p].recommendations[i].k)
             /\ RecOnDisk(S, store.rec_dir[p].user,
                          store.rec_dir[p].recommendations[i].k)
        /\ \A i \in Embedded(store.conv_dir[p]) :
             /\ HasRecommendation(S, store.conv_dir[p].user,
                                  store.conv_dir[p].recommendations[i].k)
             /\ RecOnDisk(S, store.conv_dir[p].user,
                          store.conv_dir[p].recommendations[i].k))

(***************************************************************************)
(* C38: a failed persist leaves the memory as it was.  Whenever the write  *)
(* of the conversation file or of the recommendation file fails inside     *)
(* add_entry, update_entry, delete_entry or set_recommendation, the call   *)
(* raises and the entries and recommendations in memory are those of       *)
(* before the call.                                                        *)
(***************************************************************************)
C38_FailedPersistKeepsMemory ==
  store.ready =>
    \A x \in PersistPairs, io \in WriteFaults :
      /\ \A s \in AddSummaries, k \in ValidKinds :
           With(add_entry(store, x[1], x[2], s, k, uuid, wall, io), LAMBDA r :
             r.raised => r.s.data = store.data)
      /\ \A id \in 1..MaxIds, s \in UpdateSummaries, k \in UpdateKinds :
           With(update_entry(store, x[1], x[2], id, s, k, io), LAMBDA r :
             r.raised => r.s.data = store.data)
      /\ \A id \in 1..MaxIds :
           With(delete_entry(store, x[1], x[2], id, io), LAMBDA r :
             r.raised => r.s.data = store.data)
      /\ \A rec \in StoreRecs :
           With(set_recommendation(store, x[1], x[2], rec, io), LAMBDA r :
             r.raised => r.s.data = store.data)

(***************************************************************************)
(* C39 as stated, for a key that has completed a run: a non-forced refresh *)
(* request for a user, made with an API key configured while a contact of  *)
(* the user has an entry and no cached recommendation, is not dismissed by *)
(* the interval gate (so that the contact can get its Generator call).     *)
(***************************************************************************)
C39_MissingIsGenerated ==
  [][\A p \in Procs, u \in Users, c \in Contacts :
       (/\ Issued(p)
        /\ ~req'[p].force
        /\ req'[p].filter = u
        /\ apiKey
        /\ u \in DOMAIN lastRun
        /\ BucketOf(store, u, c) # << >>
        /\ ~HasRecommendation(store, u, c))
       => req'[p].outcome # "gated"]_vars

\* C39, amended: in a refresh run, forced or not, a contact that has an entry
\* and no cached recommendation when the run reaches it gets a Generator call,
\* and a run that returns has reached every contact of the lists it read; a
\* request that the gate dismisses starts no run.
C39_RunCallsMissing ==
  /\ \A i \in 1..Len(run.log) :
       (~run.log[i].had /\ run.log[i].result # "empty") => Called(run.log[i])
  /\ run.outcome = "completed" => Listed(run) \subseteq Reached(run)
  /\ \A p \in Procs : req[p].outcome \in {"gated", "no_key"} => run.p # p

\* A non-forced run for a user has returned: it called the Generator for a
\* contact that had no recommendation, and the call failed; the next
\* non-forced request for the user is dismissed by the gate while that
\* contact has an entry and no recommendation.
C39_Witness ==
  /\ ~run.force
  /\ run.outcome = "completed"
  /\ \E i \in 1..Len(run.log) :
       /\ ~run.log[i].had
       /\ run.log[i].result = "failed"
       /\ BucketOf(store, run.log[i].user, run.log[i].person) # << >>
       /\ ~HasRecommendation(store, run.log[i].user, run.log[i].person)
  /\ \E p \in Procs :
       /\ req[p].outcome = "gated"
       /\ ~req[p].force
       /\ KeyOf(req[p].filter) = run.key
       /\ run.p # p

(***************************************************************************)
(* C40: the interval gate is per key.  The end of a run changes the        *)
(* last-completed-run timestamp and the in-progress flag of the run's key  *)
(* only, and the start of a run the flag of its key only; so no step of a  *)
(* run for one key changes whether the gate dismisses a request for        *)
(* another key.                                                            *)
(***************************************************************************)
C40_GateIsPerKey ==
  [][/\ \A k \in Users \cup {Global} :
          (k \in DOMAIN lastRun' /\ run'.key # k)
          => k \in DOMAIN lastRun /\ lastRun'[k] = lastRun[k]
     /\ \A k \in Users \cup {Global} :
          run'.key # k => ((k \in inProgress') <=> (k \in inProgress))
     /\ \A k \in Users \cup {Global}, force \in BOOLEAN :
          (run'.key # k /\ mono' = mono)
          => (Gated(force, k)' <=> Gated(force, k))]_vars

\* A run for one key has completed and stamped its key; a non-forced request
\* for another key, made afterwards within the interval of that run, was not
\* dismissed and waits for the Generator.
C40_Witness ==
  \E p, q \in Procs :
    /\ req[q].outcome = "completed"
    /\ KeyOf(req[q].filter) \in DOMAIN lastRun
    /\ mono - lastRun[KeyOf(req[q].filter)] < Interval
    /\ req[p].pc = "generating"
    /\ ~req[p].force
    /\ run.p = p
    /\ run.key = KeyOf(req[p].filter)
    /\ run.key # KeyOf(req[q].filter)
    /\ run.key \notin DOMAIN lastRun

====
